---------------------------- MODULE Spec2Model ----------------------------
(***************************************************************************)
(* Delmarva BillWatch: the two bill-upload variants                        *)
(*   electric = src/electric_bill_processor.py                             *)
(*   script   = src/script.py                                              *)
(* Text is modelled as a sequence of one-character strings, so that the    *)
(* regular expressions of the source are computed character by character. *)
(* Amounts are exact decimals (no floating point rounding).                *)
(***************************************************************************)
EXTENDS Integers, Sequences, FiniteSets, TLC

VARIABLES
    variant,        \* which of the two source files runs: "electric" or "script"
    \* --- standardize_charge_type, applied to descriptions
    descA,          \* a raw charge description
    descB,          \* descA with the digits of its "<digits> kWh" tier count changed
    keyA,           \* standardize_charge_type(descA)
    keyB,           \* standardize_charge_type(descB)
    keyAA,          \* standardize_charge_type(keyA)
    npc,            \* "input", "once" (keys computed), "twice" (keyAA computed)
    \* --- the charge loop of process_pdf
    charges,        \* the rows extract_charges_from_pdf returned, in extraction order
    consolidated,   \* the dict consolidated of process_pdf (electric)
    consolidatedP,  \* consolidated for the same charges in another order
    output_row,     \* the charge columns of the row process_pdf returns
    fpc,            \* "input", "done" (loop over), "permuted"
    \* --- one table line given to the charge-line parser
    table_line,     \* the text of the line
    inDesc,         \* the description the line was printed from
    inRate,         \* the rate of its "X $<rate> per <unit>" clause, "" without clause
    inCents,        \* the amount printed on it, in cents
    parsed,         \* what the parser returned
    ppc,            \* "line", "parsed"
    \* --- the upload block of the Streamlit script, run by every session
    sheet,          \* the worksheet: a sequence of rows, each a sequence of cells
    uuid_count,     \* how many times uuid.uuid4() was called
    customer_ids,   \* st.session_state.customer_ids of each session
    uploads,        \* how many files were uploaded so far
    upc,            \* where each session's script run stands
    uploaded_file,  \* the document each session uploaded last
    bill_hash,      \* bill_hash of each session's run
    identifier,     \* the account number / person name process_pdf extracted
    upload_row,     \* the row process_pdf returned to each session
    message,        \* "duplicate" (st.warning), "success" (st.success) or ""
    cur_headers,    \* headers of append_row_to_sheet
    existing_rows,  \* existing_rows of append_row_to_sheet
    full_headers,   \* full_headers / final_headers of append_row_to_sheet
    row_i,          \* the loop index i of append_row_to_sheet
    sheet_before,   \* history: the sheet as it was when the run under way began
    \* --- page scan of extract_charges_from_pdf
    page_lines,     \* the stripped, non-empty lines of the page
    scan_i,         \* the index of the line the loop reads next
    in_table,       \* in_table / header_found
    accumulated_row,\* accumulated_row of the text-line path
    acc_lines,      \* history: the indexes of the lines joined in accumulated_row
    rows_out,       \* rows_out / rows
    row_lines,      \* history: for each row, the indexes of the lines it was read from
    spc,            \* "scan", "done"
    \* --- extract_metadata_from_pdf
    pdf_pages,      \* pdf.pages: for each page, the stripped non-empty lines of its text
    meta_lines,     \* lines of extract_metadata_from_pdf
    meta_i,         \* the index of the line the date loop reads next
    Bill_Month_Year,\* metadata["Bill_Month_Year"]
    conversion,     \* history: "none", "ok" or "failed", the fate of the date conversion
    mpc,            \* "open", "scan", "done", or the exception that left the function
    \* --- negative amounts given to the charge-line parser
    signed_line,    \* a table line whose amount is negative, as printed
    leading_line,   \* the same line with the amount written with a leading "-"
    sign_cents,     \* the size of the amount, in cents
    parsed_signed,  \* what the parser returned for signed_line
    parsed_leading, \* what the parser returned for leading_line
    gpc,            \* "line", "parsed"
    \* --- load_and_summarize of Bill_Analyzer.py
    pdf_file,       \* file.getvalue(): the parts of the uploaded file
    use_template,   \* use_template
    tmp_exists,     \* the file named file_path is on the disk
    tmp_content,    \* what the file named file_path holds
    docs,           \* docs
    response,       \* response
    exc,            \* the exception under way, "" when there is none
    lpc,            \* "call", "try", "model", "invoke", "finally", "return", "returned", "raised"
    \* --- image_extractor_mode, _median, _mean of signlanguagecode.py
    eg,             \* eg: for each column of the image, how many of its pixels are 200
    method,         \* "mode", "median" or "mean": which image_extractor runs
    col_i,          \* i
    output_list,    \* output_list
    windows,        \* history: the slices eg[:, i:i+28] taken, [from, width]
    xpc             \* "scan", "returned", or the exception that left the function

normVars == <<descA, descB, keyA, keyB, keyAA, npc>>
foldVars == <<charges, consolidated, consolidatedP, output_row, fpc>>
parseVars == <<table_line, inDesc, inRate, inCents, parsed, ppc>>
appVars == <<sheet, uuid_count, customer_ids, uploads, upc, uploaded_file, bill_hash,
             identifier, upload_row, message, cur_headers, existing_rows,
             full_headers, row_i, sheet_before>>
scanVars == <<page_lines, scan_i, in_table, accumulated_row, acc_lines, rows_out, row_lines, spc>>
metaVars == <<pdf_pages, meta_lines, meta_i, Bill_Month_Year, conversion, mpc>>
signVars == <<signed_line, leading_line, sign_cents, parsed_signed, parsed_leading, gpc>>
loadVars == <<pdf_file, use_template, tmp_exists, tmp_content, docs, response, exc, lpc>>
windowVars == <<eg, method, col_i, output_list, windows, xpc>>
vars == <<variant, normVars, foldVars, parseVars, appVars, scanVars, metaVars, signVars, loadVars, windowVars>>

\* what each part of the program leaves alone
notNormVars == <<foldVars, parseVars, appVars, scanVars, metaVars, signVars, loadVars, windowVars>>
notFoldVars == <<normVars, parseVars, appVars, scanVars, metaVars, signVars, loadVars, windowVars>>
notParseVars == <<normVars, foldVars, appVars, scanVars, metaVars, signVars, loadVars, windowVars>>
notAppVars == <<normVars, foldVars, parseVars, scanVars, metaVars, signVars, loadVars, windowVars>>
notScanVars == <<normVars, foldVars, parseVars, appVars, metaVars, signVars, loadVars, windowVars>>
notMetaVars == <<normVars, foldVars, parseVars, appVars, scanVars, signVars, loadVars, windowVars>>
notSignVars == <<normVars, foldVars, parseVars, appVars, scanVars, metaVars, loadVars, windowVars>>
notLoadVars == <<normVars, foldVars, parseVars, appVars, scanVars, metaVars, signVars, windowVars>>
notWindowVars == <<normVars, foldVars, parseVars, appVars, scanVars, metaVars, signVars, loadVars>>

Variants == {"electric", "script"}

(***************************************************************************)
(* Characters and strings                                                  *)
(***************************************************************************)
Digits == {"0", "1", "2", "3", "4", "5", "6", "7", "8", "9"}
Lowers == {"a", "b", "c", "d", "e", "f", "g", "h", "i", "j", "k", "l", "m",
           "n", "o", "p", "q", "r", "s", "t", "u", "v", "w", "x", "y", "z"}
Uppers == {"A", "B", "C", "D", "E", "F", "G", "H", "I", "J", "K", "L", "M",
           "N", "O", "P", "Q", "R", "S", "T", "U", "V", "W", "X", "Y", "Z"}

\* \s of the re module, restricted to the blank
IsSpace(c) == c = " "
\* \d
IsDigit(c) == c \in Digits
\* \w, which decides where \b holds
IsWord(c) == c \in Digits \cup Lowers \cup Uppers \cup {"_"}

\* s[i], or a character that is neither blank, digit nor letter past the ends
At(s, i) == IF i >= 1 /\ i <= Len(s) THEN s[i] ELSE "<end>"

\* s[i:] of Python, with the 1-based index i
From(s, i) == SubSeq(s, i, Len(s))

\* s.startswith(w, i-1)
StartsAt(s, w, i) ==
    /\ i >= 1
    /\ i + Len(w) - 1 <= Len(s)
    /\ \A j \in 1..Len(w) : s[i + j - 1] = w[j]

\* s.find(w) + 1: the first index where w occurs in s, 0 when it does not
Find(s, w) ==
    LET hits == {i \in 1..(Len(s) + 1) : StartsAt(s, w, i)}
    IN  IF hits = {} THEN 0 ELSE CHOOSE i \in hits : \A j \in hits : i <= j

\* w in s
Contains(s, w) == Find(s, w) > 0

\* str.strip()
Strip(s) ==
    LET keep == {i \in 1..Len(s) : ~IsSpace(s[i])}
    IN  IF keep = {} THEN <<>>
        ELSE SubSeq(s, CHOOSE i \in keep : \A j \in keep : i <= j,
                       CHOOSE i \in keep : \A j \in keep : i >= j)

\* the first index >= i of s that holds no blank (Len(s)+1 when there is none):
\* where a greedy \s* started at i ends
RECURSIVE SkipSpaces(_, _)
SkipSpaces(s, i) ==
    IF i <= Len(s) /\ IsSpace(s[i]) THEN SkipSpaces(s, i + 1) ELSE i

\* the first index >= i of s that holds no digit: where a greedy \d* ends
RECURSIVE SkipDigits(_, _)
SkipDigits(s, i) ==
    IF i <= Len(s) /\ IsDigit(s[i]) THEN SkipDigits(s, i + 1) ELSE i

\* the concatenation of a sequence of strings
RECURSIVE Concat(_)
Concat(ss) == IF ss = <<>> THEN <<>> ELSE Head(ss) \o Concat(Tail(ss))

(***************************************************************************)
(* String literals of the source                                           *)
(***************************************************************************)
sTotalElectricCharges ==
    <<"T","o","t","a","l"," ","E","l","e","c","t","r","i","c"," ","C","h","a","r","g","e","s">>
sFirst == <<"F","i","r","s","t">>
sLast == <<"L","a","s","t">>
sNext == <<"N","e","x","t">>
sDistribution == <<"D","i","s","t","r","i","b","u","t","i","o","n">>
sTransmission == <<"T","r","a","n","s","m","i","s","s","i","o","n">>
sDistributionFirst ==
    <<"D","i","s","t","r","i","b","u","t","i","o","n"," ","C","h","a","r","g","e"," ","F","i","r","s","t"," ","k","W","h">>
sTransmissionFirst ==
    <<"T","r","a","n","s","m","i","s","s","i","o","n"," ","C","h","a","r","g","e"," ","F","i","r","s","t"," ","k","W","h">>
sDistributionLast ==
    <<"D","i","s","t","r","i","b","u","t","i","o","n"," ","C","h","a","r","g","e"," ","L","a","s","t"," ","k","W","h">>
sTransmissionLast ==
    <<"T","r","a","n","s","m","i","s","s","i","o","n"," ","C","h","a","r","g","e"," ","L","a","s","t"," ","k","W","h">>
sSpaceKWh == <<" ","k","W","h">>
sDistributionChargeLastSp ==
    <<"D","i","s","t","r","i","b","u","t","i","o","n"," ","C","h","a","r","g","e"," ","L","a","s","t"," ">>
sKWh == <<"k","W","h">>

(***************************************************************************)
(* standardize_charge_type of electric_bill_processor.py                   *)
(***************************************************************************)
\* TierMatchEnd with \d in place of \d+: one digit of the tier count is consumed
TierMatchEndOneDigit(s, i) ==
    LET a == SkipSpaces(s, i)
        b == IF IsDigit(At(s, a)) THEN a + 1 ELSE a
        c == SkipSpaces(s, b)
    IN  IF b = a THEN 0
        ELSE IF At(s, c) = "k" /\ At(s, c + 1) = "W"
             THEN (IF At(s, c + 2) = "h" THEN c + 3 ELSE c + 2)
             ELSE 0

\* one match of r'\s*\d+\s*k(?:Wh|W)' started at index i: the index after the
\* match, 0 when there is no match at i.  Every quantifier is greedy and is
\* followed by a character it cannot consume, so the match at i is unique.
TierMatchEnd(s, i) ==
    LET a == SkipSpaces(s, i)
        b == SkipDigits(s, a)
        c == SkipSpaces(s, b)
    IN  IF b = a THEN 0
        ELSE IF At(s, c) = "k" /\ At(s, c + 1) = "W"
             THEN (IF At(s, c + 2) = "h" THEN c + 3 ELSE c + 2)
             ELSE 0

\* re.sub(r'\s*\d+\s*k(?:Wh|W)', ' kWh', s), scanning from index i:
\* leftmost matches, not overlapping
RECURSIVE SubTier(_, _)
SubTier(s, i) ==
    IF i > Len(s) THEN <<>>
    ELSE LET e == TierMatchEnd(s, i)
         IN  IF e > 0 THEN sSpaceKWh \o SubTier(s, e)
             ELSE <<s[i]>> \o SubTier(s, i + 1)

\* one match of r'\b(First|Last|Next)\b' at index i: the index after it, or 0
QualifierMatchEnd(s, i) ==
    LET ws == {w \in {sFirst, sLast, sNext} :
                 /\ StartsAt(s, w, i)
                 /\ ~IsWord(At(s, i - 1))
                 /\ ~IsWord(At(s, i + Len(w)))}
    IN  IF ws = {} THEN 0 ELSE i + Len(CHOOSE w \in ws : TRUE)

\* re.sub(r'\b(First|Last|Next)\b', '', s), scanning from index i
RECURSIVE SubQualifier(_, _)
SubQualifier(s, i) ==
    IF i > Len(s) THEN <<>>
    ELSE LET e == QualifierMatchEnd(s, i)
         IN  IF e > 0 THEN SubQualifier(s, e)
             ELSE <<s[i]>> \o SubQualifier(s, i + 1)

standardize_charge_type_electric(charge_type) ==
    LET ct == Strip(charge_type)
        tiered == Strip(SubTier(ct, 1))
    IN  IF Contains(ct, sTotalElectricCharges) THEN sTotalElectricCharges
        ELSE IF Contains(ct, sFirst)
             THEN (IF Contains(tiered, sDistribution) THEN sDistributionFirst
                   ELSE IF Contains(tiered, sTransmission) THEN sTransmissionFirst
                   ELSE tiered)
        ELSE IF Contains(ct, sLast)
             THEN (IF Contains(tiered, sDistribution) THEN sDistributionLast
                   ELSE IF Contains(tiered, sTransmission) THEN sTransmissionLast
                   ELSE tiered)
        ELSE Strip(SubTier(Strip(SubQualifier(ct, 1)), 1))

(***************************************************************************)
(* standardize_charge_type of script.py                                    *)
(***************************************************************************)
\* str.lower() of one character (also the case folding of re.IGNORECASE)
AlphaUpper == <<"A","B","C","D","E","F","G","H","I","J","K","L","M",
                "N","O","P","Q","R","S","T","U","V","W","X","Y","Z">>
AlphaLower == <<"a","b","c","d","e","f","g","h","i","j","k","l","m",
                "n","o","p","q","r","s","t","u","v","w","x","y","z">>
LowerChar(c) ==
    IF c \in Uppers
    THEN AlphaLower[CHOOSE i \in 1..Len(AlphaUpper) : AlphaUpper[i] = c]
    ELSE c

\* str.lower()
Lower(s) == [i \in 1..Len(s) |-> LowerChar(s[i])]

\* one match of r"\d+\s*kWh" with re.IGNORECASE at index i: the index after it, or 0
TierMatchEndIgnoreCase(s, i) ==
    LET b == SkipDigits(s, i)
        c == SkipSpaces(s, b)
    IN  IF b = i THEN 0
        ELSE IF /\ LowerChar(At(s, c)) = "k"
                /\ LowerChar(At(s, c + 1)) = "w"
                /\ LowerChar(At(s, c + 2)) = "h"
             THEN c + 3
             ELSE 0

\* re.sub(r"\d+\s*kWh", "kWh", s, flags=re.IGNORECASE), scanning from index i
RECURSIVE SubTierIgnoreCase(_, _)
SubTierIgnoreCase(s, i) ==
    IF i > Len(s) THEN <<>>
    ELSE LET e == TierMatchEndIgnoreCase(s, i)
         IN  IF e > 0 THEN sKWh \o SubTierIgnoreCase(s, e)
             ELSE <<s[i]>> \o SubTierIgnoreCase(s, i + 1)

standardize_charge_type_script(charge_type) ==
    Strip(SubTierIgnoreCase(charge_type, 1))

\* the standardize_charge_type of the variant that runs
standardize_charge_type(v, charge_type) ==
    IF v = "electric" THEN standardize_charge_type_electric(charge_type)
    ELSE standardize_charge_type_script(charge_type)


(***************************************************************************)
(* Descriptions given to standardize_charge_type                           *)
(***************************************************************************)
\* the most digit groups ("<digits> " or "<digits>") a description holds
MaxGroups == 2

SeqsUpTo(S, n) == UNION {[1..k -> S] : k \in 0..n}

Heads == {<<>>,
          <<"C","h","a","r","g","e"," ">>,
          <<"D","i","s","t","r","i","b","u","t","i","o","n"," ","C","h","a","r","g","e"," ">>,
          <<"T","r","a","n","s","m","i","s","s","i","o","n"," ","C","h","a","r","g","e"," ">>,
          <<"T","o","t","a","l"," ","E","l","e","c","t","r","i","c"," ","C","h","a","r","g","e","s"," ">>}
Qualifiers == {<<>>, sFirst \o <<" ">>, sLast \o <<" ">>, sNext \o <<" ">>}
TierCounts == {<<"5">>, <<"1","9">>}
Seps == {<<>>, <<" ">>}
Units == {<<>>, sKWh, <<"k","W">>}
Groups == [digits : TierCounts, sep : Seps]

GroupText(g) == g.digits \o g.sep

RECURSIVE GroupsText(_)
GroupsText(gs) == IF gs = <<>> THEN <<>> ELSE GroupText(Head(gs)) \o GroupsText(Tail(gs))

\* "<head><qualifier><digit groups><unit>", e.g. "Distribution Charge Last 19 kWh"
Describe(head, qual, gs, unit) == head \o qual \o GroupsText(gs) \o unit

\* gs with the digits of its last group, the tier count in front of the unit, set to d
WithTierCount(gs, d) ==
    IF gs = <<>> THEN gs
    ELSE [gs EXCEPT ![Len(gs)] = [digits |-> d, sep |-> gs[Len(gs)].sep]]

(***************************************************************************)
(* SpecNorm: standardize_charge_type applied once and twice                *)
(***************************************************************************)
\* the description variables while another part of the program is examined
IdleNorm ==
    /\ descA = <<>>
    /\ descB = <<>>
    /\ keyA = <<>>
    /\ keyB = <<>>
    /\ keyAA = <<>>
    /\ npc = "off"

\* the charge-loop variables while another part of the program is examined
IdleFold ==
    /\ charges = <<>>
    /\ consolidated = <<>>
    /\ consolidatedP = <<>>
    /\ output_row = <<>>
    /\ fpc = "off"

\* the line-parser variables while another part of the program is examined
IdleParse ==
    /\ table_line = <<>>
    /\ inDesc = <<>>
    /\ inRate = <<>>
    /\ inCents = 0
    /\ parsed = <<>>
    /\ ppc = "off"

\* the browser sessions that use the app, each with its own st.session_state
Sessions == {"s1", "s2"}

\* the upload variables while another part of the program is examined
IdleApp ==
    /\ sheet = <<>>
    /\ uuid_count = 0
    /\ customer_ids = [s \in Sessions |-> <<>>]
    /\ uploads = 0
    /\ upc = [s \in Sessions |-> "off"]
    /\ uploaded_file = [s \in Sessions |-> <<>>]
    /\ bill_hash = [s \in Sessions |-> <<>>]
    /\ identifier = [s \in Sessions |-> <<>>]
    /\ upload_row = [s \in Sessions |-> <<>>]
    /\ message = [s \in Sessions |-> ""]
    /\ cur_headers = [s \in Sessions |-> <<>>]
    /\ existing_rows = [s \in Sessions |-> <<>>]
    /\ full_headers = [s \in Sessions |-> <<>>]
    /\ row_i = [s \in Sessions |-> 0]
    /\ sheet_before = [s \in Sessions |-> <<>>]

\* the page scan of extract_charges_from_pdf variables while another part of the program is examined
IdleScan ==
    /\ page_lines = <<>>
    /\ scan_i = 0
    /\ in_table = FALSE
    /\ accumulated_row = <<>>
    /\ acc_lines = {}
    /\ rows_out = <<>>
    /\ row_lines = <<>>
    /\ spc = "off"

\* the extract_metadata_from_pdf variables while another part of the program is examined
IdleMeta ==
    /\ pdf_pages = <<>>
    /\ meta_lines = <<>>
    /\ meta_i = 0
    /\ Bill_Month_Year = <<>>
    /\ conversion = "none"
    /\ mpc = "off"

\* the negative amounts given to the charge-line parser variables while another part of the program is examined
IdleSign ==
    /\ signed_line = <<>>
    /\ leading_line = <<>>
    /\ sign_cents = 0
    /\ parsed_signed = <<>>
    /\ parsed_leading = <<>>
    /\ gpc = "off"

\* the load_and_summarize of Bill_Analyzer.py variables while another part of the program is examined
IdleLoad ==
    /\ pdf_file = <<>>
    /\ use_template = FALSE
    /\ tmp_exists = FALSE
    /\ tmp_content = <<>>
    /\ docs = <<>>
    /\ response = <<>>
    /\ exc = ""
    /\ lpc = "off"

\* the image_extractor_mode, _median, _mean of signlanguagecode.py variables while another part of the program is examined
IdleWindow ==
    /\ eg = <<>>
    /\ method = ""
    /\ col_i = 0
    /\ output_list = <<>>
    /\ windows = <<>>
    /\ xpc = "off"

InitNorm ==
    /\ IdleFold
    /\ IdleParse
    /\ IdleApp
    /\ IdleScan
    /\ IdleMeta
    /\ IdleSign
    /\ IdleLoad
    /\ IdleWindow
    /\ variant \in Variants
    /\ \E head \in Heads, qual \in Qualifiers, gs \in SeqsUpTo(Groups, MaxGroups),
          unit \in Units, d \in TierCounts :
          /\ descA = Describe(head, qual, gs, unit)
          /\ descB = IF unit = sKWh
                     THEN Describe(head, qual, WithTierCount(gs, d), unit)
                     ELSE descA
    /\ keyA = <<>>
    /\ keyB = <<>>
    /\ keyAA = <<>>
    /\ npc = "input"

\* ct = standardize_charge_type(c["Charge_Type"]) for both descriptions
Standardize ==
    /\ npc = "input"
    /\ keyA' = standardize_charge_type(variant, descA)
    /\ keyB' = standardize_charge_type(variant, descB)
    /\ npc' = "once"
    /\ UNCHANGED <<variant, descA, descB, keyAA, notNormVars>>

\* the key of a stored row standardized again
StandardizeAgain ==
    /\ npc = "once"
    /\ keyAA' = standardize_charge_type(variant, keyA)
    /\ npc' = "twice"
    /\ UNCHANGED <<variant, descA, descB, keyA, keyB, notNormVars>>

NextNorm == Standardize \/ StandardizeAgain

SpecNorm == InitNorm /\ [][NextNorm]_vars


(***************************************************************************)
(* Claims about standardize_charge_type (SpecNorm)                         *)
(***************************************************************************)
\* C8: two descriptions that differ only in the digits of a "<digits> kWh" tier
\* count get the same key, and "Distribution Charge Last <n> kWh" gets the key
\* "Distribution Charge Last kWh", in both variants.
C8_TierCountCollapses ==
    npc # "input" =>
        /\ keyA = keyB
        /\ \A d \in TierCounts :
              descA = sDistributionChargeLastSp \o d \o sSpaceKWh
                  => keyA = sDistributionLast

\* C8 witness: "Distribution Charge Last 19 kWh" and "Distribution Charge Last 5 kWh"
\* have been standardized
C8_Witness ==
    /\ npc = "once"
    /\ descA = sDistributionChargeLastSp \o <<"1","9">> \o sSpaceKWh
    /\ descB = sDistributionChargeLastSp \o <<"5">> \o sSpaceKWh
    /\ keyA = sDistributionLast
    /\ keyB = sDistributionLast

\* C9: standardize_charge_type is idempotent: standardizing a key again returns
\* the key, for every description, in both variants.
C9_Idempotent == npc = "twice" => keyAA = keyA


(***************************************************************************)
(* Python dicts: a sequence of entries [k, v] in insertion order           *)
(***************************************************************************)
DictHas(d, k) == \E i \in 1..Len(d) : d[i].k = k
DictGet(d, k) == d[CHOOSE i \in 1..Len(d) : d[i].k = k].v
\* d = {k: v}: the dict is made anew, whatever it held
DictSetOnly(d, k, v) == <<[k |-> k, v |-> v]>>
\* d[k] = v: an existing key keeps its place
DictSet(d, k, v) ==
    IF DictHas(d, k)
    THEN [i \in 1..Len(d) |-> IF d[i].k = k THEN [k |-> k, v |-> v] ELSE d[i]]
    ELSE Append(d, [k |-> k, v |-> v])
DictKeys(d) == {d[i].k : i \in 1..Len(d)}

\* Python's None, where a string is expected
None == <<"<None>">>

sSpAmount == <<" ","A","m","o","u","n","t">>
sSpRate == <<" ","R","a","t","e">>

(***************************************************************************)
(* map_charge_type and CHARGE_TYPE_MAP of script.py                        *)
(***************************************************************************)
CHARGE_TYPE_MAP == <<
    [partial  |-> <<"c","u","s","t","o","m","e","r"," ","c","h","a","r","g","e">>,
     standard |-> <<"C","u","s","t","o","m","e","r"," ","C","h","a","r","g","e">>],
    [partial  |-> <<"d","i","s","t","r","i","b","u","t","i","o","n"," ","c","h","a","r","g","e"," ","f","i","r","s","t">>,
     standard |-> <<"D","i","s","t","r","i","b","u","t","i","o","n"," ","C","h","a","r","g","e"," ","F","i","r","s","t"," ","k","W","h">>],
    [partial  |-> <<"d","i","s","t","r","i","b","u","t","i","o","n"," ","c","h","a","r","g","e"," ","l","a","s","t">>,
     standard |-> <<"D","i","s","t","r","i","b","u","t","i","o","n"," ","C","h","a","r","g","e"," ","L","a","s","t"," ","k","W","h">>],
    [partial  |-> <<"e","n","v","i","r","o","n","m","e","n","t","a","l"," ","s","u","r","c","h","a","r","g","e">>,
     standard |-> <<"E","n","v","i","r","o","n","m","e","n","t","a","l"," ","S","u","r","c","h","a","r","g","e"," ","k","W","h">>],
    [partial  |-> <<"e","m","p","o","w","e","r"," ","m","a","r","y","l","a","n","d">>,
     standard |-> <<"E","m","P","O","W","E","R"," ","M","a","r","y","l","a","n","d"," ","k","W","h">>],
    [partial  |-> <<"c","h","a","r","g","e"," ","k","w","h">>,
     standard |-> <<"E","m","P","O","W","E","R"," ","M","a","r","y","l","a","n","d"," ","k","W","h">>],
    [partial  |-> <<"u","n","i","v","e","r","s","a","l"," ","s","e","r","v","i","c","e"," ","p","r","o","g","r","a","m">>,
     standard |-> <<"U","n","i","v","e","r","s","a","l"," ","S","e","r","v","i","c","e"," ","P","r","o","g","r","a","m">>],
    [partial  |-> <<"m","d"," ","f","r","a","n","c","h","i","s","e"," ","t","a","x">>,
     standard |-> <<"M","D"," ","F","r","a","n","c","h","i","s","e"," ","T","a","x"," ","k","W","h">>],
    [partial  |-> <<"t","o","t","a","l"," ","e","l","e","c","t","r","i","c"," ","d","e","l","i","v","e","r","y"," ","c","h","a","r","g","e","s">>,
     standard |-> <<"T","o","t","a","l"," ","E","l","e","c","t","r","i","c"," ","D","e","l","i","v","e","r","y"," ","C","h","a","r","g","e","s">>],
    [partial  |-> <<"t","r","a","n","s","m","i","s","s","i","o","n"," ","f","i","r","s","t">>,
     standard |-> <<"T","r","a","n","s","m","i","s","s","i","o","n"," ","F","i","r","s","t"," ","k","W","h">>],
    [partial  |-> <<"t","r","a","n","s","m","i","s","s","i","o","n"," ","l","a","s","t">>,
     standard |-> <<"T","r","a","n","s","m","i","s","s","i","o","n"," ","L","a","s","t"," ","k","W","h">>],
    [partial  |-> <<"a","d","j","u","s","t","m","e","n","t">>,
     standard |-> <<"A","d","j","u","s","t","m","e","n","t"," ","k","W","h">>],
    [partial  |-> <<"t","o","t","a","l"," ","e","l","e","c","t","r","i","c"," ","s","u","p","p","l","y"," ","c","h","a","r","g","e","s">>,
     standard |-> <<"T","o","t","a","l"," ","E","l","e","c","t","r","i","c"," ","S","u","p","p","l","y"," ","C","h","a","r","g","e","s">>],
    [partial  |-> <<"t","o","t","a","l"," ","e","l","e","c","t","r","i","c"," ","c","h","a","r","g","e","s"," ","-"," ","r","e","s","i","d","e","n","t","i","a","l"," ","s","e","r","v","i","c","e">>,
     standard |-> <<"T","o","t","a","l"," ","E","l","e","c","t","r","i","c"," ","C","h","a","r","g","e","s"," ","-"," ","R","e","s","i","d","e","n","t","i","a","l"," ","S","e","r","v","i","c","e">>]
>>

\* the first entry of CHARGE_TYPE_MAP whose partial occurs in desc.lower()
map_charge_type(desc) ==
    LET hits == {i \in 1..Len(CHARGE_TYPE_MAP) :
                    Contains(Lower(desc), CHARGE_TYPE_MAP[i].partial)}
    IN  IF hits = {} THEN None
        ELSE CHARGE_TYPE_MAP[CHOOSE i \in hits : \A j \in hits : i <= j].standard

(***************************************************************************)
(* The charges a document yields                                           *)
(***************************************************************************)
\* the most charges one document yields
MaxCharges == 3

sCustomerCharge == <<"C","u","s","t","o","m","e","r"," ","C","h","a","r","g","e">>
ChargeTypes == {sCustomerCharge,
                sDistributionChargeLastSp \o <<"5">> \o sSpaceKWh,
                sDistributionChargeLastSp \o <<"1","9">> \o sSpaceKWh}
Rates == {<<>>, <<"0",".","0","5">>, <<"0",".","0","9">>}
\* amounts, in cents
Amounts == {-1, 2}
RawCharges == [Charge_Type : ChargeTypes, Rate : Rates, Amount : Amounts]

\* standardize_charge_type and map_charge_type on the descriptions of ChargeTypes,
\* computed once
StandardizedType == [t \in ChargeTypes |-> standardize_charge_type_electric(t)]
MappedType == [t \in ChargeTypes |-> map_charge_type(t)]

\* ct = standardize_charge_type(c["Charge_Type"]), line 348
StandardizedKey(t) ==
    IF t \in ChargeTypes THEN StandardizedType[t]
    ELSE standardize_charge_type_electric(t)

(***************************************************************************)
(* The charge loop of process_pdf, electric_bill_processor.py              *)
(***************************************************************************)
\* the loop body with "=" where the source has "+=": the last amount wins
ConsolidateChargeOverwrite(cons, c) ==
    LET ct == StandardizedKey(c.Charge_Type)
    IN  IF DictHas(cons, ct)
        THEN LET old == DictGet(cons, ct)
             IN  DictSet(cons, ct,
                     [Amount |-> c.Amount,
                      Rate   |-> IF old.Rate = <<>> /\ c.Rate # <<>>
                                 THEN c.Rate ELSE old.Rate])
        ELSE DictSet(cons, ct, [Amount |-> c.Amount, Rate |-> c.Rate])

\* one pass of "for c in charges": lines 348-356
ConsolidateCharge(cons, c) ==
    LET ct == StandardizedKey(c.Charge_Type)
    IN  IF DictHas(cons, ct)
        THEN LET old == DictGet(cons, ct)
             IN  DictSet(cons, ct,
                     [Amount |-> old.Amount + c.Amount,
                      Rate   |-> IF old.Rate = <<>> /\ c.Rate # <<>>
                                 THEN c.Rate ELSE old.Rate])
        ELSE DictSet(cons, ct, [Amount |-> c.Amount, Rate |-> c.Rate])

RECURSIVE ConsolidateFrom(_, _, _)
ConsolidateFrom(cons, cs, i) ==
    IF i > Len(cs) THEN cons
    ELSE ConsolidateFrom(ConsolidateCharge(cons, cs[i]), cs, i + 1)

\* consolidated after the loop
Consolidate(cs) == ConsolidateFrom(<<>>, cs, 1)

\* "for ct in consolidated": the columns added to output_row, lines 390-394
RECURSIVE EmitFrom(_, _, _)
EmitFrom(out, cons, i) ==
    IF i > Len(cons) THEN out
    ELSE LET e == cons[i]
             withAmount == IF e.v.Amount # 0
                           THEN DictSet(out, e.k \o sSpAmount, e.v.Amount)
                           ELSE out
             withRate == IF e.v.Rate # <<>>
                         THEN DictSet(withAmount, e.k \o sSpRate, e.v.Rate)
                         ELSE withAmount
         IN  EmitFrom(withRate, cons, i + 1)

charge_columns_electric(cs) == EmitFrom(<<>>, Consolidate(cs), 1)

(***************************************************************************)
(* The charge loop of process_pdf, script.py                               *)
(***************************************************************************)
\* rows.append({"Mapped": mapped, ...}) for the parsed lines whose description maps
RECURSIVE MappedRows(_)
MappedRows(raw) ==
    IF raw = <<>> THEN <<>>
    ELSE LET c == Head(raw)
             mapped == MappedType[c.Charge_Type]
         IN  (IF mapped # None
              THEN <<[Mapped |-> mapped, Rate |-> c.Rate, Amount |-> c.Amount]>>
              ELSE <<>>) \o MappedRows(Tail(raw))

\* "for ch in charges": lines 254-261
RECURSIVE ScriptColumnsFrom(_, _, _)
ScriptColumnsFrom(out, cs, i) ==
    IF i > Len(cs) THEN out
    ELSE LET ch == cs[i]
             withAmount == DictSet(out, ch.Mapped \o sSpAmount, ch.Amount)
             withRate == IF ch.Rate # <<>>
                         THEN DictSet(withAmount, ch.Mapped \o sSpRate, ch.Rate)
                         ELSE withAmount
         IN  ScriptColumnsFrom(withRate, cs, i + 1)

charge_columns_script(cs) == ScriptColumnsFrom(<<>>, cs, 1)

\* the charge columns of the row process_pdf of the running variant returns
charge_columns(v, cs) ==
    IF v = "electric" THEN charge_columns_electric(cs) ELSE charge_columns_script(cs)

(***************************************************************************)
(* SpecFold: the charge loop on every short sequence of extracted charges  *)
(***************************************************************************)
Perms(n) == {p \in [1..n -> 1..n] : \A i, j \in 1..n : p[i] = p[j] => i = j}
Permuted(cs, p) == [i \in 1..Len(cs) |-> cs[p[i]]]

InitFold ==
    /\ IdleNorm
    /\ IdleParse
    /\ IdleApp
    /\ IdleScan
    /\ IdleMeta
    /\ IdleSign
    /\ IdleLoad
    /\ IdleWindow
    /\ variant \in Variants
    /\ \E raw \in SeqsUpTo(RawCharges, MaxCharges) :
          charges = IF variant = "electric" THEN raw ELSE MappedRows(raw)
    /\ consolidated = <<>>
    /\ consolidatedP = <<>>
    /\ output_row = <<>>
    /\ fpc = "input"

\* process_pdf from "consolidated = {}" to "return output_row" (charge columns)
ProcessPdfCharges ==
    /\ fpc = "input"
    /\ consolidated' = IF variant = "electric" THEN Consolidate(charges) ELSE <<>>
    /\ output_row' = charge_columns(variant, charges)
    /\ fpc' = "done"
    /\ UNCHANGED <<variant, notFoldVars, charges, consolidatedP>>

\* the same loop of electric_bill_processor.py on the charges in another order
ConsolidatePermuted ==
    /\ fpc = "done"
    /\ variant = "electric"
    /\ \E p \in Perms(Len(charges)) :
          consolidatedP' = Consolidate(Permuted(charges, p))
    /\ fpc' = "permuted"
    /\ UNCHANGED <<variant, notFoldVars, charges, consolidated, output_row>>

NextFold == ProcessPdfCharges

SpecFold == InitFold /\ [][NextFold]_vars

(***************************************************************************)
(* SpecPerm: the charge loop of electric_bill_processor.py on the same     *)
(* charges in two orders                                                   *)
(***************************************************************************)
PermRates == {<<>>, <<"0",".","0","5">>}
PermCharges == [Charge_Type : ChargeTypes, Rate : PermRates, Amount : Amounts]

InitPerm ==
    /\ IdleNorm
    /\ IdleParse
    /\ IdleApp
    /\ IdleScan
    /\ IdleMeta
    /\ IdleSign
    /\ IdleLoad
    /\ IdleWindow
    /\ variant = "electric"
    /\ charges \in SeqsUpTo(PermCharges, MaxCharges)
    /\ consolidated = <<>>
    /\ consolidatedP = <<>>
    /\ output_row = <<>>
    /\ fpc = "input"

NextPerm == ProcessPdfCharges \/ ConsolidatePermuted

SpecPerm == InitPerm /\ [][NextPerm]_vars


(***************************************************************************)
(* Claims about the charge loop of process_pdf (SpecFold, SpecPerm)        *)
(***************************************************************************)
\* the canonical key of an extracted charge
KeyOf(c) == IF variant = "electric" THEN StandardizedType[c.Charge_Type] ELSE c.Mapped

KeysOf(cs) == {KeyOf(cs[i]) : i \in 1..Len(cs)}

\* the sum of the amounts of the charges of cs with key K
RECURSIVE SumOfKey(_, _)
SumOfKey(cs, K) ==
    IF cs = <<>> THEN 0
    ELSE (IF KeyOf(Head(cs)) = K THEN Head(cs).Amount ELSE 0) + SumOfKey(Tail(cs), K)

\* the first non-empty rate among the charges of cs with key K, "" when none
RECURSIVE FirstRateOfKey(_, _)
FirstRateOfKey(cs, K) ==
    IF cs = <<>> THEN <<>>
    ELSE IF KeyOf(Head(cs)) = K /\ Head(cs).Rate # <<>> THEN Head(cs).Rate
         ELSE FirstRateOfKey(Tail(cs), K)

C10_PermutationInvariant ==
    fpc = "permuted" =>
        /\ DictKeys(consolidatedP) = DictKeys(consolidated)
        /\ \A K \in DictKeys(consolidated) :
              DictGet(consolidatedP, K).Amount = DictGet(consolidated, K).Amount

\* C10 witness: three charges of two keys, one key with two charges, consolidated
\* in two orders that meet the keys in a different order
C10_Witness ==
    /\ fpc = "permuted"
    /\ Len(charges) = 3
    /\ Len(consolidated) = 2
    /\ Len(consolidatedP) = 2
    /\ consolidated[1].k # consolidatedP[1].k
    /\ \A K \in DictKeys(consolidated) :
          DictGet(consolidatedP, K).Amount = DictGet(consolidated, K).Amount


(***************************************************************************)
(* Decimal numbers: float(text) without rounding                           *)
(***************************************************************************)
DigitChars == <<"0", "1", "2", "3", "4", "5", "6", "7", "8", "9">>
DigitVal(c) == (CHOOSE i \in 1..10 : DigitChars[i] = c) - 1

\* int(ds) of a string of digits, 0 for the empty string
RECURSIVE DigitsValue(_)
DigitsValue(ds) ==
    IF ds = <<>> THEN 0
    ELSE 10 * DigitsValue(SubSeq(ds, 1, Len(ds) - 1)) + DigitVal(ds[Len(ds)])

\* s with every character of the set cs removed: s.replace(c, "")
Without(s, cs) == SelectSeq(s, LAMBDA c : c \notin cs)

\* the number m / 10^e with the trailing zeros of its fraction dropped, so that
\* equal numbers are equal records
RECURSIVE Decimal(_, _)
Decimal(m, e) ==
    IF e > 0 /\ m % 10 = 0 THEN Decimal(m \div 10, e - 1) ELSE [m |-> m, e |-> e]

\* float(text) raises no ValueError, for text of the shape -?\d*(\.\d+)?
IsFloat(text) == Without(text, {"-", "."}) # <<>>

\* float(text) for text of the shape -?\d*(\.\d+)?
ParseFloat(text) ==
    LET neg == At(text, 1) = "-"
        body == IF neg THEN Tail(text) ELSE text
        dot == Find(body, <<".">>)
        ip == IF dot = 0 THEN body ELSE SubSeq(body, 1, dot - 1)
        fp == IF dot = 0 THEN <<>> ELSE From(body, dot + 1)
        mag == DigitsValue(ip \o fp)
    IN  Decimal(IF neg THEN 0 - mag ELSE mag, Len(fp))

\* an amount of c cents
Cents(c) == Decimal(c, 2)

\* what a line parser returns for a line that is no charge line (None, or "continue")
NoCharge == [matched |-> FALSE]

(***************************************************************************)
(* process_fallback_row of electric_bill_processor.py                      *)
(***************************************************************************)
sXDollar == <<"X"," ","$">>
sSpPerSp == <<" ","p","e","r"," ">>

\* (?:,\d{3})* started at index p: the index after the last group
RECURSIVE ThousandsEnd(_, _)
ThousandsEnd(s, p) ==
    IF /\ At(s, p) = ","
       /\ IsDigit(At(s, p + 1)) /\ IsDigit(At(s, p + 2)) /\ IsDigit(At(s, p + 3))
    THEN ThousandsEnd(s, p + 4)
    ELSE p

\* -?\d{1,3}(?:,\d{3})*\.\d{2} started at index i: the index after it, 0 when
\* it does not match at i
AmountCoreEnd(s, i) ==
    LET a == IF At(s, i) = "-" THEN i + 1 ELSE i
        b == SkipDigits(s, a)
        g == ThousandsEnd(s, b)
    IN  IF /\ b - a \in 1..3
           /\ At(s, g) = "."
           /\ IsDigit(At(s, g + 1)) /\ IsDigit(At(s, g + 2))
        THEN g + 3 ELSE 0

\* (-?\d{1,3}(?:,\d{3})*\.\d{2})(-)?\s*$ matches s from index i to its end
AmountTailAt(s, i) ==
    LET e == AmountCoreEnd(s, i)
        t == IF At(s, e) = "-" THEN e + 1 ELSE e
    IN  e > 0 /\ SkipSpaces(s, t) = Len(s) + 1

\* re.search(r'(.*?)(-?\d{1,3}(?:,\d{3})*\.\d{2})(-)?\s*$', s): the index where
\* group 2 starts, 0 when there is no match.  Group 1 is lazy, so it is the
\* shortest prefix after which the rest matches.
AmountSearch(s) ==
    LET hits == {i \in 1..Len(s) : AmountTailAt(s, i)}
    IN  IF hits = {} THEN 0 ELSE CHOOSE i \in hits : \A j \in hits : i <= j

\* rate_val taken as all that follows "X $", " per <unit>" included
RateOfTextBeforeWithUnit(text_before) ==
    LET x == Find(text_before, sXDollar)
    IN  IF x = 0 THEN <<>> ELSE Strip(From(text_before, x + Len(sXDollar)))

\* rate_val of lines 177-190, from text_before
RateOfTextBefore(text_before) ==
    LET x == Find(text_before, sXDollar)
        rate_part == Strip(From(text_before, x + Len(sXDollar)))
        per == Find(rate_part, sSpPerSp)
        rate_val == IF per > 0 THEN Strip(SubSeq(rate_part, 1, per - 1)) ELSE rate_part
    IN  IF x = 0 THEN <<>>
        ELSE IF rate_val # <<>> /\ rate_val[Len(rate_val)] = "-"
             THEN <<"-">> \o SubSeq(rate_val, 1, Len(rate_val) - 1)
             ELSE rate_val

\* charge of lines 177-190, from text_before
ChargeOfTextBefore(text_before) ==
    LET x == Find(text_before, sXDollar)
    IN  IF x = 0 THEN text_before ELSE Strip(SubSeq(text_before, 1, x - 1))

\* the tuple (charge, rate_val, amount_val), NoCharge for None
process_fallback_row(row_text) ==
    LET i == AmountSearch(row_text)
        e == AmountCoreEnd(row_text, i)
        text_before == Strip(SubSeq(row_text, 1, i - 1))
        group2 == SubSeq(row_text, i, e - 1)
        trailing == At(row_text, e) = "-"
        amount_str == IF trailing /\ At(group2, 1) # "-" THEN <<"-">> \o group2
                      ELSE group2
    IN  IF i = 0 THEN NoCharge
        ELSE [matched |-> TRUE,
              charge |-> ChargeOfTextBefore(text_before),
              rate   |-> RateOfTextBefore(text_before),
              amount |-> ParseFloat(Without(amount_str, {","}))]

(***************************************************************************)
(* charge_pattern of script.py                                             *)
(***************************************************************************)
sPer == <<"p","e","r">>

\* the first index >= i of s holding no character of cs: where a greedy [cs]* ends
RECURSIVE SkipChars(_, _, _)
SkipChars(s, i, cs) ==
    IF i <= Len(s) /\ s[i] \in cs THEN SkipChars(s, i + 1, cs) ELSE i

\* (?:\s+X\s+\$(?P<rate>[\d\.]+)(?:-)?\s+per\s+kWh) started at index p: the
\* indexes [from, to, end] of the rate and of the character after the clause,
\* end = 0 when the clause does not match at p.  unit is the text after "per".
RateClauseOf(s, p, unit) ==
    LET q == SkipSpaces(s, p)
        r == SkipSpaces(s, q + 1)
        u == SkipChars(s, r + 1, Digits \cup {"."})
        d == IF At(s, u) = "-" THEN u + 1 ELSE u
        v == SkipSpaces(s, d)
        w == SkipSpaces(s, v + 3)
        ok == /\ q > p /\ At(s, q) = "X"
              /\ r > q + 1 /\ At(s, r) = "$"
              /\ u > r + 1
              /\ v > d /\ StartsAt(s, sPer, v)
              /\ w > v + 3 /\ StartsAt(s, unit, w)
    IN  [from |-> r + 1, to |-> u - 1, end |-> IF ok THEN w + Len(unit) ELSE 0]

\* the rate clause of charge_pattern, which names kWh
RateClause(s, p) == RateClauseOf(s, p, sKWh)

\* \s+(?P<amount>-?[\d,]+(?:\.\d+)?)(?:\s*)$ started at index p: the indexes
\* [from, to] of the amount, from = 0 when it does not match at p
AmountClause(s, p) ==
    LET a == SkipSpaces(s, p)
        b == IF At(s, a) = "-" THEN a + 1 ELSE a
        c == SkipChars(s, b, Digits \cup {","})
        d == IF At(s, c) = "." /\ IsDigit(At(s, c + 1)) THEN SkipDigits(s, c + 1) ELSE c
        ok == a > p /\ c > b /\ SkipSpaces(s, d) = Len(s) + 1
    IN  [from |-> IF ok THEN a ELSE 0, to |-> d - 1]

\* re.match(charge_pattern, line) with the lazy desc ending before index p:
\* the clause is tried first, then the pattern without it
MatchWithDescBefore(s, p) ==
    LET rc == RateClause(s, p)
        withRate == AmountClause(s, rc.end)
        plain == AmountClause(s, p)
    IN  IF rc.end > 0 /\ withRate.from > 0
        THEN [ok |-> TRUE, desc |-> SubSeq(s, 1, p - 1),
              rate |-> SubSeq(s, rc.from, rc.to),
              amount |-> SubSeq(s, withRate.from, withRate.to)]
        ELSE IF plain.from > 0
        THEN [ok |-> TRUE, desc |-> SubSeq(s, 1, p - 1), rate |-> <<>>,
              amount |-> SubSeq(s, plain.from, plain.to)]
        ELSE [ok |-> FALSE]

\* lines 141-149: desc, rate_val and amount_val of a line, NoCharge when the
\* line does not match or float raises
match_charge_pattern(line) ==
    LET hits == {p \in 1..(Len(line) + 1) : MatchWithDescBefore(line, p).ok}
        m == MatchWithDescBefore(line, CHOOSE p \in hits : \A j \in hits : p <= j)
        amount_str == Without(m.amount, {","})
    IN  IF hits = {} THEN NoCharge
        ELSE IF ~IsFloat(amount_str) THEN NoCharge
        ELSE [matched |-> TRUE, charge |-> Strip(m.desc), rate |-> m.rate,
              amount |-> ParseFloat(amount_str)]

\* the charge-line parser of the running variant
parse_charge_line(v, line) ==
    IF v = "electric" THEN process_fallback_row(line) ELSE match_charge_pattern(line)


(***************************************************************************)
(* SpecParse: one printed table line given to the charge-line parser       *)
(***************************************************************************)
\* the most digits in front of the decimal point of a printed amount
MaxIntDigits == 4

sSpXDollar == <<" ","X"," ","$">>
LineDescs == {sCustomerCharge,
              <<"D","i","s","t","r","i","b","u","t","i","o","n"," ","C","h","a","r","g","e"," ",
                "F","i","r","s","t"," ","5","0","0"," ","k","W","h">>}
LineRates == {<<"0",".","0","7","2","3","6","1","0">>, <<"1",".","5","0">>}
LineUnits == {sKWh, <<"k","W">>}
LineFractions == {<<"0","0">>, <<"5","6">>}
\* the digits in front of the decimal point: no leading zero, but "0" itself
IntParts ==
    {<<"0">>} \cup
    UNION {{<<"1">> \o r : r \in [1..k -> {"0", "1"}]} : k \in 0..(MaxIntDigits - 1)}

\* ds with a "," in front of every group of three digits counted from the right
RECURSIVE Grouped(_)
Grouped(ds) ==
    IF Len(ds) <= 3 THEN ds
    ELSE Grouped(SubSeq(ds, 1, Len(ds) - 3)) \o <<",">> \o SubSeq(ds, Len(ds) - 2, Len(ds))

\* the printed amount: sign, digits with or without thousands separators, fraction
AmountText(neg, ip, fp, sep) ==
    (IF neg THEN <<"-">> ELSE <<>>) \o (IF sep THEN Grouped(ip) ELSE ip) \o <<".">> \o fp

\* the value printed, in cents
AmountCents(neg, ip, fp) ==
    LET mag == 100 * DigitsValue(ip) + DigitsValue(fp)
    IN  IF neg THEN 0 - mag ELSE mag

InitParse ==
    /\ IdleNorm
    /\ IdleFold
    /\ IdleApp
    /\ IdleScan
    /\ IdleMeta
    /\ IdleSign
    /\ IdleLoad
    /\ IdleWindow
    /\ variant \in Variants
    /\ \E desc \in LineDescs, rate \in LineRates \cup {<<>>}, unit \in LineUnits,
          neg \in BOOLEAN, ip \in IntParts, fp \in LineFractions, sep \in BOOLEAN :
          /\ inDesc = desc
          /\ inRate = rate
          /\ inCents = AmountCents(neg, ip, fp)
          /\ table_line = desc
                          \o (IF rate = <<>> THEN <<>>
                              ELSE sSpXDollar \o rate \o sSpPerSp \o unit)
                          \o <<" ">> \o AmountText(neg, ip, fp, sep)
    /\ parsed = <<>>
    /\ ppc = "line"

\* process_fallback_row(accumulated_row), or re.match(charge_pattern, line) and
\* the lines after it
ParseLine ==
    /\ ppc = "line"
    /\ parsed' = parse_charge_line(variant, table_line)
    /\ ppc' = "parsed"
    /\ UNCHANGED <<variant, notParseVars, table_line, inDesc, inRate, inCents>>

NextParse == ParseLine

SpecParse == InitParse /\ [][NextParse]_vars

(***************************************************************************)
(* Claims about the charge-line parsers (SpecParse)                        *)
(***************************************************************************)
\* C6: for every line "<desc> <amount>", the amount with two fraction digits, an
\* optional sign and with or without thousands separators, process_fallback_row
\* returns the printed value as amount and <desc> as description.
C6_FallbackAmountLiteral ==
    (ppc = "parsed" /\ variant = "electric" /\ inRate = <<>>) =>
        /\ parsed.matched
        /\ parsed.amount = Cents(inCents)
        /\ parsed.charge = inDesc

\* C7: for every line "<desc> X $<rate> per kWh <amount>" or "... per kW <amount>"
\* the parser of each variant yields rate = <rate>, amount = <amount> and the
\* description <desc>.
C7_RateClauseParsed ==
    (ppc = "parsed" /\ inRate # <<>>) =>
        /\ parsed.matched
        /\ parsed.rate = inRate
        /\ parsed.amount = Cents(inCents)
        /\ parsed.charge = inDesc

(***************************************************************************)
(* The worksheet, as gspread shows it                                      *)
(* A cell holds the text that was written to it.                           *)
(***************************************************************************)
sUser_ID == <<"U","s","e","r","_","I","D">>
sBill_ID == <<"B","i","l","l","_","I","D">>
sBill_Month_Year == <<"B","i","l","l","_","M","o","n","t","h","_","Y","e","a","r">>
sBill_Hash == <<"B","i","l","l","_","H","a","s","h">>
sTotalUse == <<"T","o","t","a","l"," ","U","s","e">>

\* x in s, for a list s
InSeq(x, s) == \E i \in 1..Len(s) : s[i] = x

Largest(S) == CHOOSE n \in S : \A m \in S : m <= n

\* the width of the widest row
Width(rows) == IF rows = <<>> THEN 0 ELSE Largest({Len(rows[i]) : i \in 1..Len(rows)})

\* a row filled with empty cells up to n cells
Pad(row, n) == row \o [i \in 1..(n - Len(row)) |-> <<>>]

\* worksheet.get_all_values(): every row, filled up to the widest
get_all_values(sh) == [i \in 1..Len(sh) |-> Pad(sh[i], Width(sh))]

\* worksheet.get_all_records(): one record per row under the header row, and
\* get_all_records_safe of script.py, whose fallback builds the same records
get_all_records(sh) ==
    LET data == get_all_values(sh)
    IN  IF Len(data) <= 1 THEN <<>>
        ELSE [i \in 1..(Len(data) - 1) |-> [keys |-> data[1], vals |-> data[i + 1]]]

\* a lookup that finds no key: default, whatever the dict holds
ZipGetDefault(keys, vals, col, default) == default

\* dict(zip(keys, vals)).get(col, default)
ZipGet(keys, vals, col, default) ==
    LET n == IF Len(keys) < Len(vals) THEN Len(keys) ELSE Len(vals)
        at == {i \in 1..n : keys[i] = col}
    IN  IF at = {} THEN default ELSE vals[Largest(at)]

\* r.get(col) of a record
RowGet(r, col) == ZipGet(r.keys, r.vals, col, None)

\* worksheet.update("A<i>", [vals]): the cells of row i from column A on
UpdateRow(sh, i, vals) ==
    LET old == IF i <= Len(sh) THEN sh[i] ELSE <<>>
        new == vals \o SubSeq(old, Len(vals) + 1, Len(old))
        n == IF i <= Len(sh) THEN Len(sh) ELSE i
    IN  [j \in 1..n |-> IF j = i THEN new ELSE IF j <= Len(sh) THEN sh[j] ELSE <<>>]

\* str(val) of a cell value: a float prints as its number, a string as itself
Str(col, val) ==
    IF Len(col) >= Len(sSpAmount) /\ StartsAt(col, sSpAmount, Len(col) - Len(sSpAmount) + 1)
    THEN <<"float", val>>
    ELSE val

\* ["" for h in headers]: a row that holds nothing of row_dict
RowValuesBlank(row_dict, headers) == [i \in 1..Len(headers) |-> <<>>]

\* [str(row_dict.get(h, "")) for h in headers]
RowValues(row_dict, headers) ==
    [i \in 1..Len(headers) |->
        IF DictHas(row_dict, headers[i])
        THEN Str(headers[i], DictGet(row_dict, headers[i]))
        ELSE <<>>]

\* the keys of a dict, in insertion order
DictKeyList(d) == [i \in 1..Len(d) |-> d[i].k]

\* base followed by the elements of more that are not in it, each once, in order
RECURSIVE Extend(_, _)
Extend(base, more) ==
    IF more = <<>> THEN base
    ELSE Extend(IF InSeq(Head(more), base) THEN base ELSE Append(base, Head(more)),
                Tail(more))

(***************************************************************************)
(* Identifiers                                                             *)
(***************************************************************************)
\* hashlib.md5(file_bytes).hexdigest(): equal for equal bytes
md5(bytes) == <<"md5", bytes>>

\* hashlib.sha256(name.encode("utf-8")).hexdigest(): equal for equal text only
sha256(text) == <<"sha256", text>>

\* str(uuid.uuid4()), the n-th one drawn
uuid4(n) == <<"uuid", n>>

\* "not x" for a string or None
Falsy(x) == x = None \/ x = <<>>

\* get_user_id of script.py
get_user_id(name, n) ==
    IF Strip(name) = <<>> THEN uuid4(n) ELSE sha256(Strip(name))

\* the number of uuid4() calls get_user_id makes
get_user_id_draws(name) == IF Strip(name) = <<>> THEN 1 ELSE 0

sUnknown == <<"U","n","k","n","o","w","n">>
sAccount == <<"a","c","c","o","u","n","t">>
sBill == <<"b","i","l","l">>
sPeriod == <<"p","e","r","i","o","d">>
sAddress == <<"a","d","d","r","e","s","s">>

\* one pass of "for ln in lines[date_idx+1:]": ln becomes name_candidate
IsNameCandidate(ln) ==
    LET low == Lower(ln)
        letters == {i \in 1..Len(ln) : ln[i] \in Lowers \cup Uppers}
    IN  /\ ~(Contains(low, sAccount) \/ Contains(low, sBill)
             \/ Contains(low, sPeriod) \/ Contains(low, sAddress))
        /\ InSeq(" ", ln)
        /\ letters # {}
        /\ \A i \in letters : ln[i] \in Uppers

\* metadata["Person"] for the lines that follow the date line
RECURSIVE name_candidate(_)
name_candidate(lines) ==
    IF lines = <<>> THEN sUnknown
    ELSE IF IsNameCandidate(Head(lines)) THEN Head(lines)
    ELSE name_candidate(Tail(lines))

\* metadata["Account_Number"] / account_number, from the text group 1 matched
account_number(group) == Without(group, {" "})

(***************************************************************************)
(* The documents that are uploaded                                         *)
(* bytes: the content; account: what (\d{4}\s*\d{4}\s*\d{3}) matched, "" when  *)
(* no line matched; name_lines: the lines after the date line of page 1;   *)
(* month_year, total_use, charges: what the extraction functions returned  *)
(***************************************************************************)
sJaneUpper == <<"J","A","N","E"," ","D","O","E">>
sJaneMixed == <<"J","a","n","e"," ","D","o","e">>
Docs == {
    [bytes |-> 1, account |-> <<"1","2","3","4"," ","5","6","7","8"," ","9","0","1">>,
     name_lines |-> <<<<"A","c","c","o","u","n","t"," ","1","2">>, sJaneUpper>>,
     month_year |-> <<"0","1","-","2","0","2","4">>, total_use |-> <<"6","5","0">>,
     charges |-> <<[Charge_Type |-> sCustomerCharge, Rate |-> <<>>, Amount |-> 2]>>],
    [bytes |-> 2, account |-> <<"1","2","3","4","5","6","7","8","9","0","1">>,
     name_lines |-> <<sJaneUpper>>,
     month_year |-> <<"0","2","-","2","0","2","4">>, total_use |-> <<>>,
     charges |-> <<[Charge_Type |-> sDistributionChargeLastSp \o <<"5">> \o sSpaceKWh,
                    Rate |-> <<"0",".","0","5">>, Amount |-> 2],
                   [Charge_Type |-> sCustomerCharge, Rate |-> <<>>, Amount |-> -1]>>],
    [bytes |-> 3, account |-> <<>>,
     name_lines |-> <<sJaneMixed>>,
     month_year |-> <<>>, total_use |-> <<>>,
     charges |-> <<>>]
}

\* the rows extract_charges_from_pdf returns for a document
extract_charges(v, d) == IF v = "electric" THEN d.charges ELSE MappedRows(d.charges)

\* the identifier text process_pdf derives the User_ID from
extract_identifier(v, d) ==
    IF v = "electric" THEN account_number(d.account) ELSE name_candidate(d.name_lines)

(***************************************************************************)
(* The upload block: duplicate check, process_pdf, append_row_to_sheet     *)
(***************************************************************************)
\* the most files uploaded in one behaviour
MaxUploads == 3

meta_cols == <<sUser_ID, sBill_ID, sBill_Month_Year, sBill_Hash, sTotalUse>>

ORDERED_COLUMNS == <<
    <<"U","s","e","r","_","I","D">>,
    <<"B","i","l","l","_","I","D">>,
    <<"B","i","l","l","_","M","o","n","t","h","_","Y","e","a","r">>,
    <<"B","i","l","l","_","H","a","s","h">>,
    <<"C","u","s","t","o","m","e","r"," ","C","h","a","r","g","e"," ","A","m","o","u","n","t">>,
    <<"C","u","s","t","o","m","e","r"," ","C","h","a","r","g","e"," ","R","a","t","e">>,
    <<"D","i","s","t","r","i","b","u","t","i","o","n"," ","C","h","a","r","g","e"," ","F","i","r","s","t"," ","k","W","h"," ","A","m","o","u","n","t">>,
    <<"D","i","s","t","r","i","b","u","t","i","o","n"," ","C","h","a","r","g","e"," ","F","i","r","s","t"," ","k","W","h"," ","R","a","t","e">>,
    <<"D","i","s","t","r","i","b","u","t","i","o","n"," ","C","h","a","r","g","e"," ","L","a","s","t"," ","k","W","h"," ","A","m","o","u","n","t">>,
    <<"D","i","s","t","r","i","b","u","t","i","o","n"," ","C","h","a","r","g","e"," ","L","a","s","t"," ","k","W","h"," ","R","a","t","e">>,
    <<"E","n","v","i","r","o","n","m","e","n","t","a","l"," ","S","u","r","c","h","a","r","g","e"," ","k","W","h"," ","A","m","o","u","n","t">>,
    <<"E","n","v","i","r","o","n","m","e","n","t","a","l"," ","S","u","r","c","h","a","r","g","e"," ","k","w","h"," ","R","a","t","e">>,
    <<"E","m","P","O","W","E","R"," ","M","a","r","y","l","a","n","d"," ","k","W","h"," ","A","m","o","u","n","t">>,
    <<"E","m","P","O","W","E","R"," ","M","a","r","y","l","a","n","d"," ","k","W","h"," ","R","a","t","e">>,
    <<"U","n","i","v","e","r","s","a","l"," ","S","e","r","v","i","c","e"," ","P","r","o","g","r","a","m"," ","A","m","o","u","n","t">>,
    <<"M","D"," ","F","r","a","n","c","h","i","s","e"," ","T","a","x"," ","k","W","h"," ","A","m","o","u","n","t">>,
    <<"M","D"," ","F","r","a","n","c","h","i","s","e"," ","T","a","x"," ","k","W","h"," ","R","a","t","e">>,
    <<"T","o","t","a","l"," ","E","l","e","c","t","r","i","c"," ","D","e","l","i","v","e","r","y"," ","C","h","a","r","g","e","s"," ","A","m","o","u","n","t">>,
    <<"T","r","a","n","s","m","i","s","s","i","o","n"," ","F","i","r","s","t"," ","k","W","h"," ","A","m","o","u","n","t">>,
    <<"T","r","a","n","s","m","i","s","s","i","o","n"," ","F","i","r","s","t"," ","k","W","h"," ","R","a","t","e">>,
    <<"T","r","a","n","s","m","i","s","s","i","o","n"," ","L","a","s","t"," ","k","W","h"," ","A","m","o","u","n","t">>,
    <<"T","r","a","n","s","m","i","s","s","i","o","n"," ","L","a","s","t"," ","k","W","h"," ","R","a","t","e">>,
    <<"A","d","j","u","s","t","m","e","n","t"," ","k","W","h"," ","A","m","o","u","n","t">>,
    <<"A","d","j","u","s","t","m","e","n","t"," ","k","W","h"," ","R","a","t","e">>,
    <<"T","o","t","a","l"," ","E","l","e","c","t","r","i","c"," ","S","u","p","p","l","y"," ","C","h","a","r","g","e","s"," ","A","m","o","u","n","t">>,
    <<"T","o","t","a","l"," ","E","l","e","c","t","r","i","c"," ","C","h","a","r","g","e","s"," ","-"," ","R","e","s","i","d","e","n","t","i","a","l"," ","S","e","r","v","i","c","e"," ","A","m","o","u","n","t">>
>>

\* any(r.get("Bill_ID") == bill_hash for r in existing): the wrong column is read
IsDuplicateWrongColumn(existing, h) ==
    \E i \in 1..Len(existing) : RowGet(existing[i], sBill_ID) = h

\* any(r.get("Bill_Hash") == bill_hash for r in existing)
IsDuplicate(existing, h) ==
    \E i \in 1..Len(existing) : RowGet(existing[i], sBill_Hash) = h

\* bill_id = str(uuid.uuid4()) whatever the sheet holds
BillIdAlwaysMinted(existing, h, n) == uuid4(n)

\* bill_id of process_pdf: that of the first row with the same Bill_Hash, a new
\* one when there is none or it is empty
BillId(existing, h, n) ==
    LET same == {i \in 1..Len(existing) : RowGet(existing[i], sBill_Hash) = h}
        found == IF same = {} THEN None
                 ELSE RowGet(existing[CHOOSE i \in same : \A j \in same : i <= j],
                             sBill_ID)
    IN  IF Falsy(found) THEN uuid4(n) ELSE found

\* the rows written so far, header row aside, as get_all_records shows them
Records == get_all_records(sheet)
HashesInSheet == {RowGet(Records[i], sBill_Hash) : i \in 1..Len(Records)}
BillIdsInSheet == {RowGet(Records[i], sBill_ID) : i \in 1..Len(Records)}

InitApp ==
    /\ IdleNorm
    /\ IdleFold
    /\ IdleParse
    /\ IdleScan
    /\ IdleMeta
    /\ IdleSign
    /\ IdleLoad
    /\ IdleWindow
    /\ variant \in Variants
    /\ sheet = <<>>
    /\ uuid_count = 0
    /\ customer_ids = [s \in Sessions |-> <<>>]
    /\ uploads = 0
    /\ upc = [s \in Sessions |-> "idle"]
    /\ uploaded_file = [s \in Sessions |-> <<>>]
    /\ bill_hash = [s \in Sessions |-> <<>>]
    /\ identifier = [s \in Sessions |-> <<>>]
    /\ upload_row = [s \in Sessions |-> <<>>]
    /\ message = [s \in Sessions |-> ""]
    /\ cur_headers = [s \in Sessions |-> <<>>]
    /\ existing_rows = [s \in Sessions |-> <<>>]
    /\ full_headers = [s \in Sessions |-> <<>>]
    /\ row_i = [s \in Sessions |-> 0]
    /\ sheet_before = [s \in Sessions |-> <<>>]

\* "if uploaded_file is not None:" up to the duplicate test: session s is given
\* document d, reads the sheet and either warns or goes on to process_pdf
Upload(s, d) ==
    /\ upc[s] = "idle"
    /\ uploads < MaxUploads
    /\ uploads' = uploads + 1
    /\ uploaded_file' = [uploaded_file EXCEPT ![s] = d]
    /\ bill_hash' = [bill_hash EXCEPT ![s] = md5(d.bytes)]
    /\ IF IsDuplicate(get_all_records(sheet), md5(d.bytes))
       THEN /\ message' = [message EXCEPT ![s] = "duplicate"]
            /\ upc' = upc
            /\ sheet_before' = [sheet_before EXCEPT ![s] = <<>>]
       ELSE /\ message' = [message EXCEPT ![s] = ""]
            /\ upc' = [upc EXCEPT ![s] = "process_pdf"]
            /\ sheet_before' = [sheet_before EXCEPT ![s] = sheet]
    /\ UNCHANGED <<variant, notAppVars, sheet, uuid_count, customer_ids, identifier,
                   upload_row, cur_headers, existing_rows, full_headers, row_i>>

\* an upload that starts while no other session's run is under way
UploadAlone(s, d) ==
    /\ \A t \in Sessions : upc[t] = "idle"
    /\ Upload(s, d)

\* process_pdf of electric_bill_processor.py
ProcessPdfElectric(s) ==
    /\ upc[s] = "process_pdf"
    /\ variant = "electric"
    /\ LET d == uploaded_file[s]
           acct == account_number(d.account)
           known == acct # <<>> /\ DictHas(customer_ids[s], acct)
           user_id == IF known THEN DictGet(customer_ids[s], acct)
                      ELSE uuid4(uuid_count + 1)
           drawn == IF known THEN uuid_count ELSE uuid_count + 1
           bill_id == BillId(get_all_records(sheet), md5(d.bytes), drawn + 1)
           minted == bill_id = uuid4(drawn + 1)
           meta == <<[k |-> sUser_ID, v |-> user_id],
                     [k |-> sBill_ID, v |-> bill_id],
                     [k |-> sBill_Month_Year, v |-> d.month_year],
                     [k |-> sBill_Hash, v |-> md5(d.bytes)],
                     [k |-> sTotalUse, v |-> d.total_use]>>
       IN  /\ customer_ids' =
                IF acct # <<>> /\ ~known
                THEN [customer_ids EXCEPT ![s] = DictSet(@, acct, user_id)]
                ELSE customer_ids
           /\ uuid_count' = IF minted THEN drawn + 1 ELSE drawn
           /\ identifier' = [identifier EXCEPT ![s] = acct]
           /\ upload_row' = [upload_row EXCEPT ![s] =
                                meta \o charge_columns_electric(extract_charges(variant, d))]
    /\ upc' = [upc EXCEPT ![s] = "append_row_to_sheet"]
    /\ UNCHANGED <<variant, notAppVars, sheet_before, sheet, uploads, uploaded_file, bill_hash,
                   message, cur_headers, existing_rows, full_headers, row_i>>

\* process_pdf of script.py
ProcessPdfScript(s) ==
    /\ upc[s] = "process_pdf"
    /\ variant = "script"
    /\ LET d == uploaded_file[s]
           person == name_candidate(d.name_lines)
           user_id == get_user_id(person, uuid_count + 1)
           drawn == uuid_count + get_user_id_draws(person)
           bill_id == BillId(get_all_records(sheet), md5(d.bytes), drawn + 1)
           minted == bill_id = uuid4(drawn + 1)
           meta == <<[k |-> sUser_ID, v |-> user_id],
                     [k |-> sBill_ID, v |-> bill_id],
                     [k |-> sBill_Month_Year, v |-> d.month_year],
                     [k |-> sBill_Hash, v |-> md5(d.bytes)]>>
       IN  /\ uuid_count' = IF minted THEN drawn + 1 ELSE drawn
           /\ identifier' = [identifier EXCEPT ![s] = person]
           /\ upload_row' = [upload_row EXCEPT ![s] =
                                ScriptColumnsFrom(meta, extract_charges(variant, d), 1)]
    /\ upc' = [upc EXCEPT ![s] = "append_row_to_sheet"]
    /\ UNCHANGED <<variant, notAppVars, sheet_before, sheet, customer_ids, uploads, uploaded_file,
                   bill_hash, message, cur_headers, existing_rows, full_headers, row_i>>

\* append_row_to_sheet of electric_bill_processor.py up to "if full_headers !=
\* headers": the sheet is read and the headers are computed
AppendReadElectric(s) ==
    /\ upc[s] = "append_row_to_sheet"
    /\ variant = "electric"
    /\ LET current_data == get_all_values(sheet)
           headers == IF current_data # <<>> THEN current_data[1] ELSE <<>>
           rows == IF current_data # <<>> THEN Tail(current_data) ELSE <<>>
           charge_cols == SelectSeq(DictKeyList(upload_row[s]),
                                    LAMBDA col : ~InSeq(col, meta_cols))
           existing_charge_cols == SelectSeq(headers, LAMBDA col : ~InSeq(col, meta_cols))
           new_charge_cols == SelectSeq(charge_cols,
                                        LAMBDA col : ~InSeq(col, existing_charge_cols))
           full == meta_cols \o existing_charge_cols \o new_charge_cols
       IN  /\ cur_headers' = [cur_headers EXCEPT ![s] = headers]
           /\ existing_rows' = [existing_rows EXCEPT ![s] = rows]
           /\ full_headers' = [full_headers EXCEPT ![s] = full]
           /\ upc' = [upc EXCEPT ![s] = IF full # headers THEN "update_header"
                                        ELSE "append_row"]
    /\ UNCHANGED <<variant, notAppVars, sheet_before, sheet, uuid_count, customer_ids, uploads,
                   uploaded_file, bill_hash, identifier, upload_row, message, row_i>>

\* worksheet.update("A1", [full_headers])
UpdateHeader(s) ==
    /\ upc[s] = "update_header"
    /\ sheet' = UpdateRow(sheet, 1, full_headers[s])
    /\ IF existing_rows[s] # <<>>
       THEN /\ upc' = [upc EXCEPT ![s] = "rewrite_rows"]
            /\ row_i' = [row_i EXCEPT ![s] = 2]
       ELSE /\ upc' = [upc EXCEPT ![s] = "append_row"]
            /\ row_i' = row_i
    /\ UNCHANGED <<variant, notAppVars, sheet_before, uuid_count, customer_ids, uploads, uploaded_file,
                   bill_hash, identifier, upload_row, message, cur_headers,
                   existing_rows, full_headers>>

\* one pass of "for i, row in enumerate(existing_rows, start=2)"
RewriteRow(s) ==
    /\ upc[s] = "rewrite_rows"
    /\ LET i == row_i[s]
           row == existing_rows[s][i - 1]
           padded_row == [j \in 1..Len(full_headers[s]) |->
                             ZipGet(cur_headers[s], row, full_headers[s][j], <<>>)]
       IN  /\ sheet' = UpdateRow(sheet, i, padded_row)
           /\ IF i - 1 < Len(existing_rows[s])
              THEN /\ row_i' = [row_i EXCEPT ![s] = i + 1]
                   /\ upc' = upc
              ELSE /\ row_i' = row_i
                   /\ upc' = [upc EXCEPT ![s] = "append_row"]
    /\ UNCHANGED <<variant, notAppVars, sheet_before, uuid_count, customer_ids, uploads, uploaded_file,
                   bill_hash, identifier, upload_row, message, cur_headers,
                   existing_rows, full_headers>>

\* append_row_to_sheet of script.py up to "if not existing:"
AppendReadScript(s) ==
    /\ upc[s] = "append_row_to_sheet"
    /\ variant = "script"
    /\ LET existing == get_all_records(sheet)
           headers == IF existing # <<>> THEN existing[1].keys ELSE <<>>
           final_headers == Extend(Extend(headers, ORDERED_COLUMNS),
                                   DictKeyList(upload_row[s]))
       IN  /\ cur_headers' = [cur_headers EXCEPT ![s] = headers]
           /\ full_headers' = [full_headers EXCEPT ![s] = final_headers]
           /\ upc' = [upc EXCEPT ![s] = IF existing = <<>> THEN "append_header"
                                        ELSE "append_row"]
    /\ UNCHANGED <<variant, notAppVars, sheet_before, sheet, uuid_count, customer_ids, uploads,
                   uploaded_file, bill_hash, identifier, upload_row, message,
                   existing_rows, row_i>>

\* worksheet.append_row(final_headers)
AppendHeader(s) ==
    /\ upc[s] = "append_header"
    /\ sheet' = Append(sheet, full_headers[s])
    /\ upc' = [upc EXCEPT ![s] = "append_row"]
    /\ UNCHANGED <<variant, notAppVars, sheet_before, uuid_count, customer_ids, uploads, uploaded_file,
                   bill_hash, identifier, upload_row, message, cur_headers,
                   existing_rows, full_headers, row_i>>

\* worksheet.append_row(row_values), then st.success
AppendRow(s) ==
    /\ upc[s] = "append_row"
    /\ sheet' = Append(sheet, RowValues(upload_row[s], full_headers[s]))
    /\ message' = [message EXCEPT ![s] = "success"]
    /\ upc' = [upc EXCEPT ![s] = "idle"]
    /\ sheet_before' = [sheet_before EXCEPT ![s] = <<>>]
    /\ UNCHANGED <<variant, notAppVars, uuid_count, customer_ids, uploads, uploaded_file,
                   bill_hash, identifier, upload_row, cur_headers, existing_rows,
                   full_headers, row_i>>

\* what a run does once the file is in
RunStep(s) ==
    \/ ProcessPdfElectric(s)
    \/ ProcessPdfScript(s)
    \/ AppendReadElectric(s)
    \/ UpdateHeader(s)
    \/ RewriteRow(s)
    \/ AppendReadScript(s)
    \/ AppendHeader(s)
    \/ AppendRow(s)

\* uploads handled one at a time
NextSeq == \E s \in Sessions : (\E d \in Docs : UploadAlone(s, d)) \/ RunStep(s)

SpecSeq == InitApp /\ [][NextSeq]_vars

\* the sessions run side by side, each call of the worksheet one step
NextUpload == \E s \in Sessions : (\E d \in Docs : Upload(s, d)) \/ RunStep(s)

SpecUpload == InitApp /\ [][NextUpload]_vars

(***************************************************************************)
(* Claims about the upload block                                           *)
(***************************************************************************)
\* C3: with uploads handled one at a time (SpecSeq) no two rows of the sheet hold
\* the same Bill_Hash; process_pdf and append_row_to_sheet run only for a hash the
\* sheet does not hold, an upload of a hash the sheet holds is reported as a
\* duplicate, and the step that handles it leaves the sheet as it was.
C3_SequentialNoDuplicate ==
    /\ [](/\ \A i, j \in 1..Len(Records) :
                RowGet(Records[i], sBill_Hash) = RowGet(Records[j], sBill_Hash) => i = j
          /\ \A s \in Sessions : upc[s] # "idle" => bill_hash[s] \notin HashesInSheet
          /\ \A s \in Sessions : message[s] = "duplicate" => bill_hash[s] \in HashesInSheet)
    /\ [][uploads' # uploads =>
            /\ sheet' = sheet
            /\ \/ \E s \in Sessions :
                    upc'[s] = "process_pdf" /\ bill_hash'[s] \notin HashesInSheet
               \/ /\ \A s \in Sessions : upc'[s] = "idle"
                  /\ \E s \in Sessions :
                        message'[s] = "duplicate" /\ bill_hash'[s] \in HashesInSheet]_vars

\* a duplicate was reported for a hash one of the rows holds
C3_Witness ==
    \E s \in Sessions :
        /\ message[s] = "duplicate"
        /\ upc[s] = "idle"
        /\ bill_hash[s] \in HashesInSheet

\* C4 as stated: in every reachable state, concurrent uploads included, two rows
\* with the same Bill_Hash hold the same Bill_ID.
C4_SameHashSameBillId ==
    \A i, j \in 1..Len(Records) :
        RowGet(Records[i], sBill_Hash) = RowGet(Records[j], sBill_Hash)
            => RowGet(Records[i], sBill_ID) = RowGet(Records[j], sBill_ID)

\* C4, amended: the Bill_ID process_pdf puts in its row is that of the first row
\* of the sheet, as process_pdf reads it, with the same Bill_Hash, and a Bill_ID no
\* row holds when the sheet it reads has no such row.
C4_BillIdFromSheetRead ==
    [][\A s \in Sessions :
          (upc[s] = "process_pdf" /\ upc'[s] = "append_row_to_sheet") =>
              LET same == {i \in 1..Len(Records) :
                              RowGet(Records[i], sBill_Hash) = bill_hash[s]}
                  new_id == DictGet(upload_row'[s], sBill_ID)
              IN  IF same = {}
                  THEN new_id \notin BillIdsInSheet
                  ELSE new_id = RowGet(Records[CHOOSE i \in same :
                                                  \A j \in same : i <= j], sBill_ID)]_vars

\* two rows hold the same Bill_Hash and the same Bill_ID: the second upload read
\* the first one's row
C4_Witness ==
    \E i, j \in 1..Len(Records) :
        /\ i < j
        /\ RowGet(Records[i], sBill_Hash) = RowGet(Records[j], sBill_Hash)
        /\ RowGet(Records[i], sBill_Hash)[1] = "md5"
        /\ RowGet(Records[i], sBill_ID) = RowGet(Records[j], sBill_ID)

\* C5: two uploads, in whichever sessions, whose extracted identifier is not
\* empty and the same up to letter case get the same User_ID.
C5_SameIdentifierSameUserId ==
    \A s, t \in Sessions :
        (/\ upload_row[s] # <<>>
         /\ upload_row[t] # <<>>
         /\ identifier[s] # <<>>
         /\ Lower(identifier[s]) = Lower(identifier[t]))
        => DictGet(upload_row[s], sUser_ID) = DictGet(upload_row[t], sUser_ID)

(***************************************************************************)
(* The page scan of extract_charges_from_pdf, text-line path               *)
(* A page is the list of its stripped, non-empty text lines; the page has  *)
(* no extracted tables.                                                    *)
(***************************************************************************)
\* the character U+2212, the minus sign of the printed bills
uMinus == "U+2212"

sTypeOfChargeLower == <<"t","y","p","e"," ","o","f"," ","c","h","a","r","g","e">>
sTypeOfChargeCap == <<"T","y","p","e"," ","o","f"," ","c","h","a","r","g","e">>
sAmountParen == <<"a","m","o","u","n","t","(","$",")">>
sAmountParenOpen == <<"a","m","o","u","n","t","(","$">>
sDeliveryCharges == <<"d","e","l","i","v","e","r","y"," ","c","h","a","r","g","e","s">>
sSupplyCharges == <<"s","u","p","p","l","y"," ","c","h","a","r","g","e","s">>
sTotalElectricChargesLower == <<"t","o","t","a","l"," ","e","l","e","c","t","r","i","c"," ","c","h","a","r","g","e","s">>

\* the header test of the running variant, lines 195 and script.py:137
IsHeaderLine(v, ln) ==
    IF v = "electric"
    THEN Contains(Lower(ln), sTypeOfChargeLower) /\ Contains(Lower(ln), sAmountParen)
    ELSE Contains(Lower(ln), sTypeOfChargeCap) /\ Contains(Lower(ln), sAmountParenOpen)

\* "delivery charges" in text_lower or "supply charges" in text_lower
TextPathRuns(lines) ==
    \E i \in 1..Len(lines) : \/ Contains(Lower(lines[i]), sDeliveryCharges)
                             \/ Contains(Lower(lines[i]), sSupplyCharges)

\* "total electric charges" in line.lower()
IsTotalLine(ln) == Contains(Lower(ln), sTotalElectricChargesLower)

\* re.sub(r'−', '-', line)
CleanLine(ln) == [i \in 1..Len(ln) |-> IF ln[i] = uMinus THEN "-" ELSE ln[i]]

\* a test that finds no amount at the end of any text
EndsInAmountNever(text) == FALSE

\* re.search(r'(-?\d{1,3}(?:,\d{3})*\.\d{2})(-)?\s*$', text) finds a match
EndsInAmount(text) == AmountSearch(text) > 0

\* F applied to the value x, computed once: "x = ...", then the lines that use it
With(x, F(_)) == F(x)

\* "if result: rows_out.append({...})", lines 204-211 and 217-223
WithFallbackRow(rows, text) ==
    With(process_fallback_row(text),
         LAMBDA result :
            IF result.matched
            THEN Append(rows, [Charge_Type |-> result.charge, Rate |-> result.rate,
                               Amount |-> result.amount])
            ELSE rows)

\* the index of the first row whose Charge_Type.lower() contains "total electric
\* charges", 0 when there is none: total_exists
TotalExists(rows) ==
    LET hits == {k \in 1..Len(rows) : IsTotalLine(rows[k].Charge_Type)}
    IN  IF hits = {} THEN 0 ELSE CHOOSE k \in hits : \A m \in hits : k <= m

\* one pass of the loop over the lines that contain "total electric charges",
\* lines 228-254; st = [rows, lines] are rows_out and the lines each row is from
TotalPassLine(st, lines, j) ==
    IF j > Len(lines) THEN st
    ELSE With(process_fallback_row(CleanLine(lines[j])),
              LAMBDA m :
                 LET k == TotalExists(st.rows)
                 IN  IF ~(IsTotalLine(lines[j]) /\ m.matched) THEN st
                     ELSE IF k > 0
                     THEN [rows |-> [st.rows EXCEPT ![k] =
                                        [@ EXCEPT !.Amount = m.amount,
                                                  !.Charge_Type = sTotalElectricCharges]],
                           lines |-> [st.lines EXCEPT ![k] = @ \cup {j}]]
                     ELSE [rows |-> Append(st.rows,
                                           [Charge_Type |-> sTotalElectricCharges,
                                            Rate |-> <<>>, Amount |-> m.amount]),
                           lines |-> Append(st.lines, {j})])

RECURSIVE TotalPassFrom(_, _, _)
TotalPassFrom(st, lines, j) ==
    IF j > Len(lines) THEN st
    ELSE TotalPassFrom(TotalPassLine(st, lines, j), lines, j + 1)

(***************************************************************************)
(* SpecScan: the scan of every short page over a few printed lines         *)
(***************************************************************************)
\* the most lines on a page
MaxLines == 4

lnHeader == <<"T","y","p","e"," ","o","f"," ","c","h","a","r","g","e"," ","H","o","w"," ","w","e"," ","c","a","l","c","u","l","a","t","e"," ","t","h","i","s"," ","c","h","a","r","g","e"," ","A","m","o","u","n","t","(","$",")">>
lnCustomer == <<"C","u","s","t","o","m","e","r"," ","C","h","a","r","g","e"," ","9",".","1","9">>
lnDistribution == <<"D","i","s","t","r","i","b","u","t","i","o","n"," ","C","h","a","r","g","e"," ","F","i","r","s","t"," ","5","0","0"," ","k","W","h"," ","X"," ","$","0",".","0","7","2","3","6","1","0"," ","p","e","r"," ","k","W","h"," ","3","6",".","1","8">>
lnDelivery == <<"T","o","t","a","l"," ","E","l","e","c","t","r","i","c"," ","D","e","l","i","v","e","r","y"," ","C","h","a","r","g","e","s"," ","4","5",".","3","7">>
lnTotal == <<"T","o","t","a","l"," ","E","l","e","c","t","r","i","c"," ","C","h","a","r","g","e","s"," ","5","4",".","5","6">>
lnWrapped == <<"A","d","j","u","s","t","m","e","n","t"," ","f","o","r">>
ScanLines == {lnHeader, lnCustomer, lnDistribution, lnDelivery, lnTotal, lnWrapped}

InitScan ==
    /\ IdleNorm
    /\ IdleFold
    /\ IdleParse
    /\ IdleApp
    /\ IdleMeta
    /\ IdleSign
    /\ IdleLoad
    /\ IdleWindow
    /\ variant \in Variants
    /\ page_lines \in SeqsUpTo(ScanLines, MaxLines)
    /\ scan_i = 1
    /\ in_table = FALSE
    /\ accumulated_row = <<>>
    /\ acc_lines = {}
    /\ rows_out = <<>>
    /\ row_lines = <<>>
    /\ spc = "scan"

\* one pass of "for i, line in enumerate(lines)", lines 194-214
ScanLineElectric ==
    /\ spc = "scan"
    /\ variant = "electric"
    /\ TextPathRuns(page_lines)
    /\ scan_i <= Len(page_lines)
    /\ scan_i' = scan_i + 1
    /\ LET ln == page_lines[scan_i]
           clean_line == CleanLine(ln)
           joined == IF accumulated_row # <<>>
                     THEN accumulated_row \o <<" ">> \o clean_line
                     ELSE clean_line
       IN  IF IsHeaderLine(variant, ln)
           THEN /\ in_table' = TRUE
                /\ UNCHANGED <<accumulated_row, acc_lines, rows_out, row_lines>>
           ELSE IF ~in_table
           THEN UNCHANGED <<in_table, accumulated_row, acc_lines, rows_out, row_lines>>
           ELSE IF EndsInAmount(joined)
           THEN /\ rows_out' = WithFallbackRow(rows_out, joined)
                /\ row_lines' = IF Len(rows_out') > Len(rows_out)
                                THEN Append(row_lines, acc_lines \cup {scan_i})
                                ELSE row_lines
                /\ accumulated_row' = <<>>
                /\ acc_lines' = {}
                /\ UNCHANGED in_table
           ELSE /\ accumulated_row' = joined
                /\ acc_lines' = acc_lines \cup {scan_i}
                /\ UNCHANGED <<in_table, rows_out, row_lines>>
    /\ UNCHANGED <<variant, notScanVars, page_lines, spc>>

\* after the loop: "if accumulated_row:" of lines 215-224, then the pass over the
\* "total electric charges" lines
EndOfPageElectric ==
    /\ spc = "scan"
    /\ variant = "electric"
    /\ ~TextPathRuns(page_lines) \/ scan_i > Len(page_lines)
    /\ With(IF TextPathRuns(page_lines) /\ accumulated_row # <<>>
            THEN WithFallbackRow(rows_out, accumulated_row) ELSE rows_out,
            LAMBDA rows :
               With(TotalPassFrom(
                       [rows |-> rows,
                        lines |-> IF Len(rows) > Len(rows_out)
                                  THEN Append(row_lines, acc_lines) ELSE row_lines],
                       page_lines, 1),
                    LAMBDA st : rows_out' = st.rows /\ row_lines' = st.lines))
    /\ accumulated_row' = <<>>
    /\ acc_lines' = {}
    /\ spc' = "done"
    /\ UNCHANGED <<variant, notScanVars, page_lines, scan_i, in_table>>

\* one pass of "for line in lines" of script.py, lines 132-157
ScanLineScript ==
    /\ spc = "scan"
    /\ variant = "script"
    /\ scan_i <= Len(page_lines)
    /\ scan_i' = scan_i + 1
    /\ With(match_charge_pattern(page_lines[scan_i]),
            LAMBDA m :
               IF ~in_table /\ IsHeaderLine(variant, page_lines[scan_i])
               THEN /\ in_table' = TRUE
                    /\ UNCHANGED <<rows_out, row_lines>>
               ELSE IF in_table /\ m.matched /\ map_charge_type(m.charge) # None
               THEN /\ rows_out' = Append(rows_out,
                                          [Mapped |-> map_charge_type(m.charge),
                                           Rate |-> m.rate, Amount |-> m.amount])
                    /\ row_lines' = Append(row_lines, {scan_i})
                    /\ UNCHANGED in_table
               ELSE UNCHANGED <<in_table, rows_out, row_lines>>)
    /\ UNCHANGED <<variant, notScanVars, page_lines, accumulated_row, acc_lines, spc>>

\* the loop of script.py is over
EndOfPageScript ==
    /\ spc = "scan"
    /\ variant = "script"
    /\ scan_i > Len(page_lines)
    /\ spc' = "done"
    /\ UNCHANGED <<variant, notScanVars, page_lines, scan_i, in_table, accumulated_row,
                   acc_lines, rows_out, row_lines>>

NextScan == ScanLineElectric \/ EndOfPageElectric \/ ScanLineScript \/ EndOfPageScript

SpecScan == InitScan /\ [][NextScan]_vars

(***************************************************************************)
(* Claims about the page scan (SpecScan)                                   *)
(***************************************************************************)
\* the amount of a row with two fraction digits, in cents
AmountInCents(a) == IF a.e = 0 THEN a.m * 100 ELSE IF a.e = 1 THEN a.m * 10 ELSE a.m

\* charges of process_pdf: the rows extract_charges_from_pdf returned
ChargesOfRows(rows) ==
    [k \in 1..Len(rows) |-> [Charge_Type |-> rows[k].Charge_Type, Rate |-> rows[k].Rate,
                             Amount |-> AmountInCents(rows[k].Amount)]]

ExamplePage == <<lnHeader, lnCustomer, lnDistribution, lnDelivery>>

\* C11: for the page with the header line, "Customer Charge 9.19", "Distribution
\* Charge First 500 kWh X $0.0723610 per kWh 36.18" and "Total Electric Delivery
\* Charges 45.37", the text-line path and the consolidation of
\* electric_bill_processor.py give exactly Customer Charge 9.19 without rate,
\* Distribution Charge First kWh 36.18 with rate 0.0723610 and Total Electric
\* Delivery Charges 45.37.
C11_ExamplePageConsolidated ==
    (variant = "electric" /\ spc = "done" /\ page_lines = ExamplePage) =>
        Consolidate(ChargesOfRows(rows_out)) =
            <<[k |-> sCustomerCharge, v |-> [Amount |-> 919, Rate |-> <<>>]],
              [k |-> <<"D","i","s","t","r","i","b","u","t","i","o","n"," ","C","h","a","r","g","e"," ","F","i","r","s","t"," ","k","W","h">>,
               v |-> [Amount |-> 3618, Rate |-> <<"0",".","0","7","2","3","6","1","0">>]],
              [k |-> <<"T","o","t","a","l"," ","E","l","e","c","t","r","i","c"," ","D","e","l","i","v","e","r","y"," ","C","h","a","r","g","e","s">>,
               v |-> [Amount |-> 4537, Rate |-> <<>>]]>>

\* the example page was scanned to its end and gave three rows
C11_Witness ==
    /\ variant = "electric"
    /\ spc = "done"
    /\ page_lines = ExamplePage
    /\ Len(rows_out) = 3

(***************************************************************************)
(* extract_metadata_from_pdf: the statement period of the bill             *)
(* A document is the list of its pages; a page is the list of the          *)
(* stripped, non-empty lines of page.extract_text().                       *)
(***************************************************************************)
\* the month names of the date patterns, lower case (re.IGNORECASE)
MonthNames == << <<"j","a","n","u","a","r","y">>, <<"f","e","b","r","u","a","r","y">>, <<"m","a","r","c","h">>, <<"a","p","r","i","l">>, <<"m","a","y">>, <<"j","u","n","e">>, <<"j","u","l","y">>,
                 <<"a","u","g","u","s","t">>, <<"s","e","p","t","e","m","b","e","r">>, <<"o","c","t","o","b","e","r">>, <<"n","o","v","e","m","b","e","r">>, <<"d","e","c","e","m","b","e","r">> >>

\* (January|...|December), or (Jan|...|Dec) when abbr, matched at the start of s:
\* the number of the month, 0 when no alternative matches
MonthAt(s, abbr) ==
    LET hits == {k \in 1..12 :
                   StartsAt(Lower(s), IF abbr THEN SubSeq(MonthNames[k], 1, 3)
                                              ELSE MonthNames[k], 1)}
    IN  IF hits = {} THEN 0 ELSE CHOOSE k \in hits : \A j \in hits : k <= j

\* the index after the month name that MonthAt matched
MonthEnd(s, abbr) == IF abbr THEN 4 ELSE Len(MonthNames[MonthAt(s, abbr)]) + 1

\* \s+\d{4}$ matched at p, or \s+\d{1,2},\s+\d{4}$ when withDay:
\* the day and year digits, NoDate when the tail does not match
NoDate == [matched |-> FALSE, month |-> 0, dot |-> FALSE, day |-> <<>>, year |-> <<>>]

DateTail(s, p, withDay) ==
    LET q == SkipSpaces(s, p)
        d == SkipDigits(s, q)
        y == IF withDay THEN SkipSpaces(s, d + 1) ELSE q
    IN  IF /\ IsSpace(At(s, p))
           /\ withDay => /\ d - q \in {1, 2}
                         /\ At(s, d) = ","
                         /\ IsSpace(At(s, d + 1))
           /\ SkipDigits(s, y) = y + 4
           /\ y + 4 = Len(s) + 1
        THEN [NoDate EXCEPT !.matched = TRUE,
                            !.day = IF withDay THEN SubSeq(s, q, d - 1) ELSE <<>>,
                            !.year = SubSeq(s, y, y + 3)]
        ELSE NoDate

\* re.match(date_patterns[k][0], line, re.IGNORECASE): the month, the dot flag, and
\* the day and year digits; NoDate when the pattern does not match
DatePatternMatch(k, line) ==
    LET abbr == k \in {2, 4}
        withDay == k \in {3, 4}
        m == MonthAt(line, abbr)
        e == MonthEnd(line, abbr)
        dot == abbr /\ At(line, e) = "."
        tail == DateTail(line, IF dot THEN e + 1 ELSE e, withDay)
    IN  IF m = 0 THEN NoDate
        ELSE [tail EXCEPT !.month = m, !.dot = dot]

\* the first of the four date_patterns that matches the line, 0 when none does
DatePattern(line) ==
    LET hits == {k \in 1..4 : DatePatternMatch(k, line).matched}
    IN  IF hits = {} THEN 0 ELSE CHOOSE k \in hits : \A j \in hits : k <= j

\* the number of days of a month of the proleptic Gregorian calendar
DaysIn(month, year) ==
    IF month = 2
    THEN IF year % 4 = 0 /\ (year % 100 # 0 \/ year % 400 = 0) THEN 29 ELSE 28
    ELSE IF month \in {4, 6, 9, 11} THEN 30 ELSE 31

\* the text of a year as strftime("%Y") of glibc prints it: no leading zeros
RECURSIVE YearText(_)
YearText(ds) == IF Len(ds) > 1 /\ Head(ds) = "0" THEN YearText(Tail(ds)) ELSE ds

\* strftime("%m-%Y")
MonthYear(month, year) ==
    << (IF month >= 10 THEN "1" ELSE "0"),
       DigitChars[(month % 10) + 1], "-" >> \o YearText(year)

\* datetime.strptime(line, date_patterns[k][1]) for a line that date_patterns[k][0]
\* matched: [raised |-> TRUE] for ValueError, else the value of strftime("%m-%Y").
\* %b and %B accept no dot; %d accepts 1..31 written with one or two digits; the
\* date must exist and its year must be at least 1.
strptime(line, k) ==
    LET mt == DatePatternMatch(k, line)
        y == DigitsValue(mt.year)
        d == IF mt.day = <<>> THEN 1 ELSE DigitsValue(mt.day)
    IN  IF \/ mt.dot
           \/ y < 1
           \/ d < 1
           \/ d > DaysIn(mt.month, y)
        THEN [raised |-> TRUE, value |-> <<>>]
        ELSE [raised |-> FALSE, value |-> MonthYear(mt.month, mt.year)]

sBillLower == <<"b","i","l","l">>
sIssueLower == <<"i","s","s","u","e">>
sDateColon == <<"d","a","t","e",":">>

\* Bill\s*Issue\s*date:\s*(.+) matched at p of the line, under re.IGNORECASE
BillIssueDateAt(line, p) ==
    LET low == Lower(line)
        a == SkipSpaces(low, p + 4)
        b == SkipSpaces(low, a + 5)
    IN  /\ StartsAt(low, sBillLower, p)
        /\ StartsAt(low, sIssueLower, a)
        /\ StartsAt(low, sDateColon, b)
        /\ b + 5 <= Len(line)

\* re.search(r"Bill\s*Issue\s*date:\s*(.+)", line, re.IGNORECASE):
\* match.group(1).strip(), None when the line does not match
BillIssueDate(line) ==
    LET hits == {p \in 1..Len(line) : BillIssueDateAt(line, p)}
        p == CHOOSE i \in hits : \A j \in hits : i <= j
        b == SkipSpaces(Lower(line), SkipSpaces(Lower(line), p + 4) + 5)
    IN  IF hits = {} THEN None ELSE Strip(From(line, b + 5))

\* the dates dateutil may make of a text that is not a plain month-and-year date
\* (fuzzy parsing fills the missing fields from today's date)
FuzzyDates == { <<"0","5","-","2","0","2","4">>, <<"1","1","-","2","0","2","6">> }

\* date_parse(date_text, fuzzy=True).strftime("%m-%Y"): dateutil is a library, so
\* its result is one of its possible outcomes. A plain "Month [d,] yyyy" date is
\* read as such; any other text either raises (ParserError, OverflowError) or is
\* read as some date.
date_parse(date_text) ==
    LET k == DatePattern(date_text)
    IN  IF k # 0 /\ ~strptime(date_text, k).raised
        THEN {strptime(date_text, k)}
        ELSE {[raised |-> TRUE, value |-> <<>>]}
             \cup {[raised |-> FALSE, value |-> v] : v \in FuzzyDates}

\* text += page.extract_text() or "" over the pages, then the stripped non-empty
\* lines: no line break is put between two pages, so the last line of a page and
\* the first line of the next page become one line
RECURSIVE JoinPages(_)
JoinPages(pages) ==
    IF pages = <<>> THEN <<>>
    ELSE LET rest == JoinPages(Tail(pages))
             page == Head(pages)
         IN  IF page = <<>> THEN rest
             ELSE IF rest = <<>> THEN page
             ELSE SubSeq(page, 1, Len(page) - 1)
                  \o << page[Len(page)] \o Head(rest) >> \o Tail(rest)

\* the pages a document of the model is made of
MaxPages == 2

lnMay5 == <<"M","a","y"," ","5",","," ","2","0","2","4">>
lnSepDot == <<"S","e","p","."," ","2","0","2","4">>
lnFeb31 == <<"F","e","b","r","u","a","r","y"," ","3","1",","," ","2","0","2","4">>
lnIssueMay == <<"B","i","l","l"," ","I","s","s","u","e"," ","d","a","t","e",":"," ","M","a","y"," ","5",","," ","2","0","2","4">>
lnIssueSoon == <<"B","i","l","l"," ","I","s","s","u","e"," ","d","a","t","e",":"," ","s","o","o","n">>
lnMayLower == <<"m","a","y"," ","2","0","2","4">>
lnYearZero == <<"J","u","n"," ","0","0","0","0">>

MetaPages == { <<>>, <<sJaneUpper>>, <<lnMay5>>, <<lnSepDot, sJaneUpper>>,
               <<sJaneUpper, lnFeb31>>, <<lnIssueMay>>, <<lnIssueSoon>>,
               <<sJaneUpper, lnMayLower>>, <<lnYearZero>> }

InitMeta ==
    /\ IdleNorm
    /\ IdleFold
    /\ IdleParse
    /\ IdleApp
    /\ IdleScan
    /\ IdleSign
    /\ IdleLoad
    /\ IdleWindow
    /\ variant \in Variants
    /\ pdf_pages \in SeqsUpTo(MetaPages, MaxPages)
    /\ meta_lines = <<>>
    /\ meta_i = 0
    /\ Bill_Month_Year = <<>>
    /\ conversion = "none"
    /\ mpc = "open"

\* electric_bill_processor.py: the text of all pages is read
OpenPdfElectric ==
    /\ mpc = "open"
    /\ variant = "electric"
    /\ meta_lines' = JoinPages(pdf_pages)
    /\ meta_i' = 1
    /\ mpc' = "scan"
    /\ UNCHANGED <<variant, notMetaVars, pdf_pages, Bill_Month_Year, conversion>>

\* script.py: the text of pdf.pages[0] is read; indexing an empty list of pages
\* raises IndexError, which nothing in the function catches
OpenPdfScript ==
    /\ mpc = "open"
    /\ variant = "script"
    /\ IF pdf_pages = <<>>
       THEN /\ mpc' = "IndexError"
            /\ UNCHANGED <<meta_lines, meta_i>>
       ELSE /\ meta_lines' = pdf_pages[1]
            /\ meta_i' = 1
            /\ mpc' = "scan"
    /\ UNCHANGED <<variant, notMetaVars, pdf_pages, Bill_Month_Year, conversion>>

\* electric_bill_processor.py: one turn of the date loop; the first line that
\* matches ends the loop, whether date_parse returned or raised
DateLineElectric ==
    /\ mpc = "scan"
    /\ variant = "electric"
    /\ meta_i <= Len(meta_lines)
    /\ LET date_text == BillIssueDate(meta_lines[meta_i])
       IN  IF date_text = None
           THEN /\ meta_i' = meta_i + 1
                /\ UNCHANGED <<Bill_Month_Year, conversion, mpc>>
           ELSE /\ \E parsed_date \in date_parse(date_text) :
                      /\ Bill_Month_Year' = IF parsed_date.raised THEN Bill_Month_Year
                                            ELSE parsed_date.value
                      /\ conversion' = IF parsed_date.raised THEN "failed" ELSE "ok"
                /\ mpc' = "done"
                /\ UNCHANGED meta_i
    /\ UNCHANGED <<variant, notMetaVars, pdf_pages, meta_lines>>

\* script.py: one turn of the date loop; the first line that a pattern matches ends
\* the loop, whether strptime returned or raised
DateLineScript ==
    /\ mpc = "scan"
    /\ variant = "script"
    /\ meta_i <= Len(meta_lines)
    /\ LET line == meta_lines[meta_i]
           k == DatePattern(line)
       IN  IF k = 0
           THEN /\ meta_i' = meta_i + 1
                /\ UNCHANGED <<Bill_Month_Year, conversion, mpc>>
           ELSE /\ Bill_Month_Year' = strptime(line, k).value
                /\ conversion' = IF strptime(line, k).raised THEN "failed" ELSE "ok"
                /\ mpc' = "done"
                /\ UNCHANGED meta_i
    /\ UNCHANGED <<variant, notMetaVars, pdf_pages, meta_lines>>

\* the date loop ran out of lines: return metadata
ReturnMetadata ==
    /\ mpc = "scan"
    /\ meta_i > Len(meta_lines)
    /\ mpc' = "done"
    /\ UNCHANGED <<variant, notMetaVars, pdf_pages, meta_lines, meta_i, Bill_Month_Year,
                   conversion>>

NextMeta ==
    OpenPdfElectric \/ OpenPdfScript \/ DateLineElectric \/ DateLineScript \/ ReturnMetadata

SpecMeta == InitMeta /\ [][NextMeta]_vars

\* a line of the scanned text has the shape of a date for the running variant
DateShaped(v, line) ==
    IF v = "electric" THEN BillIssueDate(line) # None ELSE DatePattern(line) # 0

\* C12, first part: extract_metadata_from_pdf never raises, whatever the document
C12_NeverRaises == mpc \in {"off", "open", "scan", "done"}

\* C12, second part: a returned Bill_Month_Year is "" when no scanned line has the
\* shape of a date, and when the line that has it could not be converted
C12_EmptyWithoutDate ==
    mpc = "done" =>
        /\ (\A i \in 1..Len(meta_lines) : ~DateShaped(variant, meta_lines[i]))
               => Bill_Month_Year = <<>>
        /\ conversion = "failed" => Bill_Month_Year = <<>>

\* C12: extract_metadata_from_pdf never raises, returns Bill_Month_Year = "" for
\* every document without a date-shaped line, and returns "" rather than raising
\* when a date-shaped line cannot be converted
C12_MetadataNeverRaises == C12_NeverRaises /\ C12_EmptyWithoutDate

(***************************************************************************)
(* append_row_to_sheet on its own: one call, on a sheet that holds         *)
(* anything, with any row                                                  *)
(***************************************************************************)
sCustomerChargeAmount == <<"C","u","s","t","o","m","e","r"," ","C","h","a","r","g","e"," ","A","m","o","u","n","t">>
sEnvironmentalRate == <<"E","n","v","i","r","o","n","m","e","n","t","a","l"," ","S","u","r","c","h","a","r","g","e"," ","k","W","h"," ","R","a","t","e">>

\* a row of a sheet written earlier
OldRow(n) ==
    [j \in 1..n |-> IF j = 1 THEN <<"u","0">> ELSE IF j = 2 THEN <<"b","0">>
                    ELSE <<"x", DigitChars[(j \div 10) + 1], DigitChars[(j % 10) + 1]>>]

\* what the sheet may hold when append_row_to_sheet is called
PriorSheets == {
    <<>>,
    <<ORDERED_COLUMNS>>,
    <<ORDERED_COLUMNS, OldRow(Len(ORDERED_COLUMNS))>>,
    <<meta_cols, OldRow(5)>>,
    <<Append(meta_cols, sCustomerChargeAmount), OldRow(6), OldRow(6)>>,
    <<Append(meta_cols, sEnvironmentalRate), OldRow(6)>>,
    <<<<sUser_ID, sBill_ID>>, OldRow(2)>> }

\* the row_dict given to append_row_to_sheet
RowMeta == <<[k |-> sUser_ID, v |-> <<"u","1">>], [k |-> sBill_ID, v |-> <<"b","1">>],
             [k |-> sBill_Month_Year, v |-> <<"0","5","-","2","0","2","4">>], [k |-> sBill_Hash, v |-> <<"h","1">>]>>
RowDicts == <<
    RowMeta,
    Append(RowMeta, [k |-> sTotalUse, v |-> <<"5","0","0">>]),
    Append(RowMeta, [k |-> sCustomerChargeAmount, v |-> Decimal(919, 2)]),
    Append(RowMeta, [k |-> sEnvironmentalRate, v |-> <<"0",".","0","0","0","1","4","6","0">>]) >>

InitAppend ==
    /\ IdleNorm
    /\ IdleFold
    /\ IdleParse
    /\ IdleScan
    /\ IdleMeta
    /\ IdleSign
    /\ IdleLoad
    /\ IdleWindow
    /\ variant \in Variants
    /\ sheet \in PriorSheets
    /\ uuid_count = 0
    /\ customer_ids = [s \in Sessions |-> <<>>]
    /\ uploads = 0
    /\ upc = [s \in Sessions |-> IF s = "s1" THEN "append_row_to_sheet" ELSE "idle"]
    /\ uploaded_file = [s \in Sessions |-> <<>>]
    /\ bill_hash = [s \in Sessions |-> <<>>]
    /\ identifier = [s \in Sessions |-> <<>>]
    /\ \E n \in 1..Len(RowDicts) :
           upload_row = [s \in Sessions |-> IF s = "s1" THEN RowDicts[n] ELSE <<>>]
    /\ message = [s \in Sessions |-> ""]
    /\ cur_headers = [s \in Sessions |-> <<>>]
    /\ existing_rows = [s \in Sessions |-> <<>>]
    /\ full_headers = [s \in Sessions |-> <<>>]
    /\ row_i = [s \in Sessions |-> 0]
    /\ sheet_before = [s \in Sessions |-> IF s = "s1" THEN sheet ELSE <<>>]

\* the steps of the one call, made by session s1
NextAppend ==
    \/ AppendReadElectric("s1")
    \/ UpdateHeader("s1")
    \/ RewriteRow("s1")
    \/ AppendReadScript("s1")
    \/ AppendHeader("s1")
    \/ AppendRow("s1")

SpecAppend == InitAppend /\ [][NextAppend]_vars

\* row[j], "" past the end of the row
Cell(row, j) == IF j <= Len(row) THEN row[j] ELSE <<>>

\* C13: after append_row_to_sheet(row_dict) returns, every key of row_dict is a
\* column name of the header row of the sheet, and the appended row holds, under
\* each header, row_dict's value for it, "" when row_dict has no such key
C13_RowUnderItsHeaders ==
    upc["s1"] = "idle" =>
        LET row_dict == upload_row["s1"]
            header == sheet[1]
            row == sheet[Len(sheet)]
        IN  /\ \A key \in DictKeys(row_dict) : InSeq(key, header)
            /\ \A j \in 1..Len(header) :
                   Cell(row, j) = IF DictHas(row_dict, header[j])
                                  THEN Str(header[j], DictGet(row_dict, header[j]))
                                  ELSE <<>>

\* C13 for electric_bill_processor.py alone
C13_Electric == variant = "electric" => C13_RowUnderItsHeaders

(***************************************************************************)
(* Worksheet calls that fail                                               *)
(***************************************************************************)
\* the worksheet call that the run of session s makes next raises (gspread
\* APIError): the call writes nothing, no try block of process_pdf or of
\* append_row_to_sheet catches the exception, Streamlit reports it and the run
\* ends. In script.py a read is made by get_all_records_safe, so a read that
\* raises is one where get_all_records and then get_all_values both failed.
CallFails(s) ==
    /\ upc[s] \in {"process_pdf", "append_row_to_sheet", "update_header", "rewrite_rows",
                   "append_header", "append_row"}
    /\ message' = [message EXCEPT ![s] = "APIError"]
    /\ upc' = [upc EXCEPT ![s] = "idle"]
    /\ UNCHANGED <<variant, notAppVars, sheet, sheet_before, uuid_count, customer_ids,
                   uploads, uploaded_file, bill_hash, identifier, upload_row,
                   cur_headers, existing_rows, full_headers, row_i>>

\* get_all_records_safe of script.py: get_all_records raises, st.error reports it,
\* get_all_values answers in its place and the run goes on
ReadFailsSafe(s) ==
    /\ variant = "script"
    /\ upc[s] \in {"process_pdf", "append_row_to_sheet"}
    /\ message[s] # "Error fetching records"
    /\ message' = [message EXCEPT ![s] = "Error fetching records"]
    /\ UNCHANGED <<variant, notAppVars, sheet, sheet_before, uuid_count, customer_ids,
                   uploads, uploaded_file, bill_hash, identifier, upload_row, upc,
                   cur_headers, existing_rows, full_headers, row_i>>

\* uploads handled one at a time, every worksheet call of a run liable to fail
NextFail ==
    \E s \in Sessions :
        \/ \E d \in Docs : UploadAlone(s, d)
        \/ RunStep(s)
        \/ CallFails(s)
        \/ ReadFailsSafe(s)

SpecFail == InitApp /\ [][NextFail]_vars

\* C14: when a worksheet call of a run fails, the run ends with the failure
\* reported and the sheet is what it was when the upload came in: a run that ends
\* in an exception leaves the sheet as it found it, and a run in which a read has
\* failed writes nothing
C14_FailureLeavesSheetUntouched ==
    [][\A s \in Sessions :
          ((upc[s] # "idle" /\ upc'[s] = "idle" /\ message'[s] = "APIError")
              \/ message[s] = "Error fetching records")
          => sheet' = sheet_before[s]]_vars

(***************************************************************************)
(* Concurrent uploads of the same file                                     *)
(***************************************************************************)
\* C15: the duplicate check and the append are separate steps with nothing that
\* makes them atomic: a run goes on to process_pdf when the sheet it reads at
\* upload time does not hold its Bill_Hash, and from then on it appends its row,
\* with its Bill_Hash, whatever the sheet has come to hold in between. With two
\* sessions uploading the same bytes (SpecUpload) a sheet with two rows of one
\* Bill_Hash is reached (C15_Witness).
C15_CheckThenAppendNotAtomic ==
    [][\A s \in Sessions :
          /\ (upc[s] = "idle" /\ upc'[s] = "process_pdf")
                 => ~IsDuplicate(get_all_records(sheet), bill_hash'[s])
          /\ (upc[s] = "append_row" /\ upc'[s] = "idle")
                 => /\ message'[s] = "success"
                    /\ Len(sheet') = Len(sheet) + 1
                    /\ RowGet(Records'[Len(Records')], sBill_Hash) = bill_hash[s]]_vars

\* both sessions uploaded the same bytes, both were thanked, and the sheet holds
\* two rows with that Bill_Hash
C15_Witness ==
    /\ bill_hash["s1"] = bill_hash["s2"]
    /\ message["s1"] = "success"
    /\ message["s2"] = "success"
    /\ Cardinality({i \in 1..Len(Records) :
                       RowGet(Records[i], sBill_Hash) = bill_hash["s1"]}) >= 2

(***************************************************************************)
(* Claims about the page scan                                              *)
(***************************************************************************)
sAmountLower == <<"a","m","o","u","n","t">>

\* the line holds "type of charge" and "amount", in any letter case
HeaderSignature(ln) ==
    Contains(Lower(ln), sTypeOfChargeLower) /\ Contains(Lower(ln), sAmountLower)

\* C16: once the scan of a page is over, a page with a line that holds "type of
\* charge" and "amount" in any letter case has had its table header recognised
\* (in_table / header_found is set), in both variants
C16_HeaderRecognised ==
    spc = "done" =>
        ((\E i \in 1..Len(page_lines) : HeaderSignature(page_lines[i])) => in_table)

\* C16 for the pages of electric_bill_processor.py whose text-line path runs
C16_ElectricPastGate ==
    (variant = "electric" /\ TextPathRuns(page_lines)) => C16_HeaderRecognised

\* line t is the terminal marker of a section: a "total electric charges" line
\* below a header line
TerminalMarkerAt(t) ==
    /\ IsTotalLine(page_lines[t])
    /\ \E h \in 1..(t - 1) : IsHeaderLine(variant, page_lines[h])

\* C17, first part: no line located after the terminal marker of a section (and
\* not below a further header line) produces a charge row
C17_NoRowAfterTerminalMarker ==
    \A k \in 1..Len(row_lines) : \A j \in row_lines[k] :
        ~\E t \in 1..(j - 1) :
            /\ TerminalMarkerAt(t)
            /\ \A h \in (t + 1)..j : ~IsHeaderLine(variant, page_lines[h])

\* C17, second part: text buffered before a header line is not joined into a row
\* of the section that follows that header
C17_NoRowAcrossHeader ==
    \A k \in 1..Len(row_lines) : \A a, b \in row_lines[k] :
        ~\E h \in (a + 1)..(b - 1) : IsHeaderLine(variant, page_lines[h])

\* C17: in the text-line scan of electric_bill_processor.py a table section ends at
\* the first line after its header that is another header line or a terminal
\* marker ("total electric charges"): no line after the marker produces a row and
\* no row joins text from before a second header with text after it
\* (the rows are those of the loop over the lines, before the later pass over the
\* "total electric charges" lines of the page amends them)
C17_SectionEnds ==
    (variant = "electric" /\ spc = "scan")
        => C17_NoRowAfterTerminalMarker /\ C17_NoRowAcrossHeader

(***************************************************************************)
(* SpecSign: negative amounts in the three ways a bill prints them         *)
(***************************************************************************)
\* how the minus sign of the amount is written
SignForms == {"trailing", "unicode"}

\* the amount with its minus sign written in the given form
SignedAmountText(form, ip, fp, sep) ==
    IF form = "trailing" THEN AmountText(FALSE, ip, fp, sep) \o <<"-">>
    ELSE IF form = "unicode" THEN <<uMinus>> \o AmountText(FALSE, ip, fp, sep)
    ELSE AmountText(TRUE, ip, fp, sep)

\* the charge-line parser of the running variant applied to a line of the page:
\* electric_bill_processor.py replaces the Unicode minus first (line 201)
parse_page_line(v, line) ==
    IF v = "electric" THEN process_fallback_row(CleanLine(line))
    ELSE match_charge_pattern(line)

InitSign ==
    /\ IdleNorm
    /\ IdleFold
    /\ IdleParse
    /\ IdleApp
    /\ IdleScan
    /\ IdleMeta
    /\ IdleLoad
    /\ IdleWindow
    /\ variant \in Variants
    /\ \E desc \in LineDescs, rate \in LineRates \cup {<<>>}, form \in SignForms,
          ip \in IntParts, fp \in LineFractions, sep \in BOOLEAN :
          LET front == desc \o (IF rate = <<>> THEN <<>>
                                ELSE sSpXDollar \o rate \o sSpPerSp \o sKWh) \o <<" ">>
          IN  /\ signed_line = front \o SignedAmountText(form, ip, fp, sep)
              /\ leading_line = front \o SignedAmountText("leading", ip, fp, sep)
              /\ sign_cents = 100 * DigitsValue(ip) + DigitsValue(fp)
    /\ parsed_signed = <<>>
    /\ parsed_leading = <<>>
    /\ gpc = "line"

\* the parser is given the line as printed, and the line with a leading "-"
ParseSigned ==
    /\ gpc = "line"
    /\ parsed_signed' = parse_page_line(variant, signed_line)
    /\ parsed_leading' = parse_page_line(variant, leading_line)
    /\ gpc' = "parsed"
    /\ UNCHANGED <<variant, notSignVars, signed_line, leading_line, sign_cents>>

NextSign == ParseSigned

SpecSign == InitSign /\ [][NextSign]_vars

\* C18: an amount written with a trailing minus or with a Unicode minus is parsed,
\* in each variant, to the same negative value as the amount written with a
\* leading ASCII minus: the line is not rejected and the sign is not dropped
C18_MinusFormsAgree ==
    gpc = "parsed" =>
        /\ parsed_signed.matched
        /\ parsed_leading.matched
        /\ parsed_signed.amount = parsed_leading.amount
        /\ sign_cents > 0 => parsed_signed.amount.m < 0

\* C18 for electric_bill_processor.py and amounts below 1000 or printed with
\* thousands separators
C18_ElectricGrouped ==
    (variant = "electric" /\ AmountSearch(leading_line) > 0
       /\ At(leading_line, AmountSearch(leading_line)) = "-")
        => C18_MinusFormsAgree

\* the lines of the page with their index in S, each with its Unicode minus
\* replaced, joined by single blanks in page order, from line j on
RECURSIVE JoinLinesFrom(_, _)
JoinLinesFrom(S, j) ==
    IF j > Len(page_lines) THEN <<>>
    ELSE IF j \notin S THEN JoinLinesFrom(S, j + 1)
    ELSE IF \A m \in S : m <= j THEN CleanLine(page_lines[j])
    ELSE CleanLine(page_lines[j]) \o <<" ">> \o JoinLinesFrom(S, j + 1)

JoinLines(S) == JoinLinesFrom(S, 1)

\* the lines read so far that lie inside a table: below a header line, and no
\* header lines themselves
TableLinesRead ==
    {j \in 1..(scan_i - 1) :
        /\ j <= Len(page_lines)
        /\ ~IsHeaderLine(variant, page_lines[j])
        /\ \E h \in 1..(j - 1) : IsHeaderLine(variant, page_lines[h])}

\* the lines that went into some row
LinesInRows == UNION {row_lines[k] : k \in 1..Len(row_lines)}

\* C19 as claimed: once the page is scanned, every line inside a table has gone
\* into a row: none was dropped
C19_NoTableLineDropped ==
    (variant = "electric" /\ spc = "done" /\ TextPathRuns(page_lines))
        => TableLinesRead \subseteq LinesInRows

\* while the loop of electric_bill_processor.py runs: the buffer is the join, in
\* page order and with single blanks, of table lines read, it never ends in an
\* amount, every table line read is either in the buffer or in exactly one row, a
\* row is the parse of the join of its lines, and that join ends in an amount
C19_BufferInvariant ==
    (variant = "electric" /\ spc = "scan") =>
        /\ accumulated_row = JoinLines(acc_lines)
        /\ AmountSearch(accumulated_row) = 0
        /\ TableLinesRead = acc_lines \cup LinesInRows
        /\ acc_lines \cap LinesInRows = {}
        /\ Len(row_lines) = Len(rows_out)
        /\ \A k, m \in 1..Len(row_lines) : k # m => row_lines[k] \cap row_lines[m] = {}
        /\ \A k \in 1..Len(rows_out) :
               With(process_fallback_row(JoinLines(row_lines[k])),
                    LAMBDA result :
                       /\ result.matched
                       /\ rows_out[k] = [Charge_Type |-> result.charge,
                                         Rate |-> result.rate, Amount |-> result.amount])

\* C19: in the text-line scan of electric_bill_processor.py a table line that does
\* not end in an amount raises no error and is kept in the buffer, joined in page
\* order and with single blanks to the table lines after it (header lines are
\* passed over) until the joined text ends in an amount; the joined text is then
\* parsed as one row and the buffer is empty before the next line is read. Text
\* still in the buffer when the page ends is discarded: it gives no row.
C19_BufferedUntilAmount ==
    /\ []C19_BufferInvariant
    /\ [][(variant = "electric" /\ spc = "scan") =>
            /\ (Len(rows_out') > Len(rows_out) /\ spc' = "scan")
                   => /\ accumulated_row' = <<>>
                      /\ row_lines'[Len(row_lines')] = acc_lines \cup {scan_i}
            /\ spc' = "done"
                   => /\ accumulated_row' = <<>>
                      /\ acc_lines \cap UNION {row_lines'[k] : k \in 1..Len(row_lines')} = {}]_vars

\* a row was made of two or more lines of the page and the buffer is empty again
C19_Witness ==
    /\ variant = "electric"
    /\ spc = "scan"
    /\ accumulated_row = <<>>
    /\ \E k \in 1..Len(row_lines) : Cardinality(row_lines[k]) >= 2

(***************************************************************************)
(* Uploads of documents that carry no identifier                           *)
(***************************************************************************)
\* documents in which no account number line and no upper-case name line is found
AnonDocs == {
    [bytes |-> 3, account |-> <<>>, name_lines |-> <<sJaneMixed>>,
     month_year |-> <<>>, total_use |-> <<>>, charges |-> <<>>],
    [bytes |-> 4, account |-> <<>>, name_lines |-> <<>>,
     month_year |-> <<"0","3","-","2","0","2","4">>, total_use |-> <<>>,
     charges |-> <<[Charge_Type |-> sCustomerCharge, Rate |-> <<>>, Amount |-> 2]>>],
    [bytes |-> 5, account |-> <<>>, name_lines |-> << <<"A","c","c","o","u","n","t"," ","1","2">> >>,
     month_year |-> <<"0","4","-","2","0","2","4">>, total_use |-> <<"6","5","0">>, charges |-> <<>>] }

\* such documents uploaded one at a time, from either session
NextAnon == \E s \in Sessions : (\E d \in AnonDocs : UploadAlone(s, d)) \/ RunStep(s)

SpecAnon == InitApp /\ [][NextAnon]_vars

\* C20: uploads of different documents from which no identifier can be extracted
\* get different User_IDs, in both variants: each gets a freshly drawn random id
C20_NoIdentifierFreshUserId ==
    \A i, j \in 1..Len(Records) :
        i < j => RowGet(Records[i], sUser_ID) # RowGet(Records[j], sUser_ID)

\* C20 for electric_bill_processor.py alone
C20_Electric == variant = "electric" => C20_NoIdentifierFreshUserId

(***************************************************************************)
(* SpecNoise: pages whose table holds lines that are no charges            *)
(***************************************************************************)
lnPage == <<"P","a","g","e"," ","2"," ","o","f"," ","4">>
lnMeter == <<"M","e","t","e","r"," ","r","e","a","d","i","n","g"," ","d","a","t","e"," ","3","1",".","0","0">>
NoiseLines == {lnHeader, lnCustomer, lnDelivery, lnPage, lnMeter}

InitNoise ==
    /\ IdleNorm
    /\ IdleFold
    /\ IdleParse
    /\ IdleApp
    /\ IdleMeta
    /\ IdleSign
    /\ IdleLoad
    /\ IdleWindow
    /\ variant \in Variants
    /\ page_lines \in SeqsUpTo(NoiseLines, MaxLines)
    /\ scan_i = 1
    /\ in_table = FALSE
    /\ accumulated_row = <<>>
    /\ acc_lines = {}
    /\ rows_out = <<>>
    /\ row_lines = <<>>
    /\ spc = "scan"

SpecNoise == InitNoise /\ [][NextScan]_vars

\* the incidental words of non-charge lines
NoiseWords == << <<"p","a","g","e">>, <<"y","e","a","r">>, <<"m","e","t","e","r">>, <<"t","e","m","p">>, <<"d","a","t","e">> >>

\* the description of a row: Charge_Type in electric_bill_processor.py, Mapped in
\* script.py
RowDescription(v, row) == IF v = "electric" THEN row.Charge_Type ELSE row.Mapped

\* C21: no row that extract_charges_from_pdf emits, in either variant, has a
\* description that holds one of the words page, year, meter, temp, date in any
\* letter case
C21_NoNoiseRows ==
    \A k \in 1..Len(rows_out) : \A w \in 1..Len(NoiseWords) :
        ~Contains(Lower(RowDescription(variant, rows_out[k])), NoiseWords[w])

(***************************************************************************)
(* Entries whose amounts add up to nothing                                 *)
(***************************************************************************)
\* C22: in both variants a key whose amounts add up to exactly 0 leaves neither
\* its "<key> Amount" column nor its "<key> Rate" column in the row process_pdf
\* returns, whatever the rate of the entry
C22_ZeroEntryDropped ==
    fpc = "done" =>
        \A K \in KeysOf(charges) :
            SumOfKey(charges, K) = 0 =>
                /\ ~DictHas(output_row, K \o sSpAmount)
                /\ ~DictHas(output_row, K \o sSpRate)

\* the part of C22 that electric_bill_processor.py keeps: the amount column of
\* such a key is left out
C22_ElectricAmountDropped ==
    (fpc = "done" /\ variant = "electric") =>
        \A K \in KeysOf(charges) :
            SumOfKey(charges, K) = 0 => ~DictHas(output_row, K \o sSpAmount)

(***************************************************************************)
(* The table path of extract_charges_from_pdf, electric_bill_processor.py   *)
(* page.find_tables() is pdfplumber's: the page either yields the charges  *)
(* table, one row of cells per printed line below the header, or no table. *)
(***************************************************************************)
sHowWeCalculateLower == <<"h","o","w"," ","w","e"," ","c","a","l","c","u","l","a","t","e"," ","t","h","i","s"," ","c","h","a","r","g","e">>

\* extracted_table[0] of the charges table
TableHeader == << <<"T","y","p","e"," ","o","f"," ","c","h","a","r","g","e">>, <<"H","o","w"," ","w","e"," ","c","a","l","c","u","l","a","t","e"," ","t","h","i","s"," ","c","h","a","r","g","e">>, <<"A","m","o","u","n","t","(","$",")">> >>

\* the cells (type, calculation, amount) pdfplumber cuts a printed line into
CellsOf(ln) ==
    IF ln = lnCustomer THEN << <<"C","u","s","t","o","m","e","r"," ","C","h","a","r","g","e">>, <<>>, <<"9",".","1","9">> >>
    ELSE IF ln = lnDistribution
    THEN << <<"D","i","s","t","r","i","b","u","t","i","o","n"," ","C","h","a","r","g","e"," ","F","i","r","s","t"," ","5","0","0"," ","k","W","h">>, <<"X"," ","$","0",".","0","7","2","3","6","1","0"," ","p","e","r"," ","k","W","h">>, <<"3","6",".","1","8">> >>
    ELSE IF ln = lnDelivery THEN << <<"T","o","t","a","l"," ","E","l","e","c","t","r","i","c"," ","D","e","l","i","v","e","r","y"," ","C","h","a","r","g","e","s">>, <<>>, <<"4","5",".","3","7">> >>
    ELSE IF ln = lnTotal THEN << <<"T","o","t","a","l"," ","E","l","e","c","t","r","i","c"," ","C","h","a","r","g","e","s">>, <<>>, <<"5","4",".","5","6">> >>
    ELSE << ln, <<>>, <<>> >>

\* the index of the first header line of the page, 0 when there is none
HeaderIndex(lines) ==
    LET hs == {j \in 1..Len(lines) : lines[j] = lnHeader}
    IN  IF hs = {} THEN 0 ELSE CHOOSE j \in hs : \A m \in hs : j <= m

\* table.extract() of the charges table of a page: the header cells, then the
\* cells of every line below the header
ExtractedTable(lines) ==
    <<TableHeader>> \o [k \in 1..(Len(lines) - HeaderIndex(lines)) |->
                           CellsOf(lines[HeaderIndex(lines) + k])]

\* list.index(x), counted from 1; 0 when x is not in the list
IndexOf(cells, x) ==
    LET hs == {j \in 1..Len(cells) : cells[j] = x}
    IN  IF hs = {} THEN 0 ELSE CHOOSE j \in hs : \A m \in hs : j <= m

\* the index after a greedy [\d\.]+ started at index i
RECURSIVE SkipDigitsDots(_, _)
SkipDigitsDots(s, i) ==
    IF i <= Len(s) /\ (IsDigit(s[i]) \/ s[i] = ".") THEN SkipDigitsDots(s, i + 1) ELSE i

\* X\s+\$([\d\.]+(?:[−-])?) matched at index i: [from, to] of group 1, to = 0
\* when there is no match at i
TableRateAt(s, i) ==
    LET d == SkipSpaces(s, i + 1)
        b == SkipDigitsDots(s, d + 1)
        e == IF At(s, b) \in {"-", uMinus} THEN b + 1 ELSE b
    IN  IF At(s, i) = "X" /\ d > i + 1 /\ At(s, d) = "$" /\ b > d + 1
        THEN [from |-> d + 1, to |-> e - 1] ELSE [from |-> 0, to |-> 0]

\* rate_val of lines 141-147
TableRate(calc_text) ==
    LET hits == {i \in 1..Len(calc_text) : TableRateAt(calc_text, i).to > 0}
        i == CHOOSE i \in hits : \A j \in hits : i <= j
        rate_val == SubSeq(calc_text, TableRateAt(calc_text, i).from,
                           TableRateAt(calc_text, i).to)
    IN  IF hits = {} THEN <<>>
        ELSE IF rate_val[Len(rate_val)] = "-"
             THEN <<"-">> \o SubSeq(rate_val, 1, Len(rate_val) - 1)
             ELSE rate_val

\* amount_text.replace("$", "").replace(",", "").replace("−", "-")
TableAmountText(amount_text) == CleanLine(Without(amount_text, {"$", ","}))

\* "for i, row in enumerate(extracted_table[1:], start=1)", lines 133-157, from
\* row i on; st = [rows, lines] as in the total pass, first = the page line of
\* extracted_table[1]
RECURSIVE TableRowsFrom(_, _, _, _)
TableRowsFrom(st, extracted_table, i, first) ==
    IF i > Len(extracted_table) THEN st
    ELSE LET headers == [j \in 1..Len(TableHeader) |-> Lower(extracted_table[1][j])]
             type_idx == IndexOf(headers, sTypeOfChargeLower)
             calc_idx == IndexOf(headers, sHowWeCalculateLower)
             amount_idx == IndexOf(headers, sAmountParen)
             row == extracted_table[i]
             amount_text == TableAmountText(Strip(row[amount_idx]))
             short == \E x \in {type_idx, calc_idx, amount_idx} : Len(row) < x
             next == IF short \/ ~IsFloat(amount_text) THEN st
                     ELSE [rows |-> Append(st.rows,
                                      [Charge_Type |-> Strip(row[type_idx]),
                                       Rate |-> IF calc_idx > 0
                                                THEN TableRate(Strip(row[calc_idx]))
                                                ELSE <<>>,
                                       Amount |-> ParseFloat(amount_text)]),
                           lines |-> Append(st.lines, {first + i - 2})]
         IN  TableRowsFrom(next, extracted_table, i + 1, first)

\* "for table in tables" for one table, lines 122-157
TableRows(st, extracted_table, first) ==
    LET headers == [j \in 1..Len(extracted_table[1]) |-> Lower(extracted_table[1][j])]
    IN  IF /\ Len(extracted_table) > 1
           /\ IndexOf(headers, sTypeOfChargeLower) > 0
           /\ IndexOf(headers, sAmountParen) > 0
        THEN TableRowsFrom(st, extracted_table, 2, first)
        ELSE st

(***************************************************************************)
(* SpecTable: a page of electric_bill_processor.py through the table path, *)
(* the text-line path and the total pass                                   *)
(***************************************************************************)
InitTable ==
    /\ IdleNorm
    /\ IdleFold
    /\ IdleParse
    /\ IdleApp
    /\ IdleMeta
    /\ IdleSign
    /\ IdleLoad
    /\ IdleWindow
    /\ variant = "electric"
    /\ page_lines \in SeqsUpTo(ScanLines, MaxLines)
    /\ scan_i = 1
    /\ in_table = FALSE
    /\ accumulated_row = <<>>
    /\ acc_lines = {}
    /\ rows_out = <<>>
    /\ row_lines = <<>>
    /\ spc = "tables"

\* tables = page.find_tables(...) and the loop over the tables, lines 114-157
FindTablesElectric ==
    /\ spc = "tables"
    /\ variant = "electric"
    /\ \E found \in BOOLEAN :
          With(IF found /\ HeaderIndex(page_lines) > 0
               THEN TableRows([rows |-> rows_out, lines |-> row_lines],
                              ExtractedTable(page_lines), HeaderIndex(page_lines) + 1)
               ELSE [rows |-> rows_out, lines |-> row_lines],
               LAMBDA st : rows_out' = st.rows /\ row_lines' = st.lines)
    /\ spc' = "scan"
    /\ UNCHANGED <<variant, notScanVars, page_lines, scan_i, in_table, accumulated_row,
                   acc_lines>>

NextTable == FindTablesElectric \/ ScanLineElectric \/ EndOfPageElectric

SpecTable == InitTable /\ [][NextTable]_vars

\* the lines of the page whose row has the canonical key K
LinesOfKey(K) ==
    {j \in 1..Len(page_lines) :
        \E k \in 1..Len(rows_out) :
            j \in row_lines[k] /\ StandardizedKey(rows_out[k].Charge_Type) = K}

\* C23: in electric_bill_processor.py a charge printed once on the page is
\* counted once: when the rows of a canonical key all come from one printed
\* line, found by the table extraction, by the text-line path or by both, the
\* consolidated amount of the key is the amount of that row, not a multiple
C23_CountedOnce ==
    spc = "done" =>
        \A k \in 1..Len(rows_out) :
            LET K == StandardizedKey(rows_out[k].Charge_Type)
            IN  Cardinality(LinesOfKey(K)) = 1 =>
                    DictGet(Consolidate(ChargesOfRows(rows_out)), K).Amount =
                        AmountInCents(rows_out[k].Amount)

(***************************************************************************)
(* The total of the bill                                                   *)
(***************************************************************************)
\* the amounts, in cents, that the lines containing "total electric charges"
\* print at their end
TotalAmountsPrinted(lines) ==
    {AmountInCents(process_fallback_row(CleanLine(lines[j])).amount) :
        j \in {i \in 1..Len(lines) :
                  IsTotalLine(lines[i]) /\ EndsInAmount(CleanLine(lines[i]))}}

\* C24: in electric_bill_processor.py, when every line containing "total
\* electric charges" prints the same amount A, the row process_pdf returns has
\* "Total Electric Charges Amount" = A: the total is never added to itself
C24_TotalIsPrintedTotal ==
    (variant = "electric" /\ spc = "done") =>
        With(TotalAmountsPrinted(page_lines),
             LAMBDA printed :
                Cardinality(printed) = 1 =>
                    With(charge_columns_electric(ChargesOfRows(rows_out)),
                         LAMBDA out :
                            /\ DictHas(out, sTotalElectricCharges \o sSpAmount)
                            /\ DictGet(out, sTotalElectricCharges \o sSpAmount)
                                   \in printed))

(***************************************************************************)
(* The rows the sheet held before append_row_to_sheet was called           *)
(***************************************************************************)
\* every row of the sheet "before" is in "after" at its place, with the value it
\* had under each header name of "before" now under the same name, and the
\* charge columns of "before" are in "after" in the same relative order
EarlierDataKept(before, after) ==
    before # <<>> =>
        /\ Len(after) >= Len(before)
        /\ \A j \in 1..Len(before[1]) :
              /\ InSeq(before[1][j], after[1])
              /\ \A i \in 2..Len(before) : \A j2 \in 1..Len(after[1]) :
                    after[1][j2] = before[1][j] =>
                        Cell(after[i], j2) = Cell(before[i], j)
        /\ \A ja, jb \in 1..Len(before[1]) :
              (/\ ja < jb
               /\ ~InSeq(before[1][ja], meta_cols)
               /\ ~InSeq(before[1][jb], meta_cols)) =>
                  IndexOf(after[1], before[1][ja]) < IndexOf(after[1], before[1][jb])

\* C25: append_row_to_sheet of electric_bill_processor.py leaves the earlier data
\* intact: when the call returns, every row the sheet held before the call has,
\* under every header name the header row held, the value it had, also when the
\* call rewrote the header row and re-padded the rows, and the charge columns
\* of before keep their relative order
C25_EarlierDataKept ==
    [][(/\ variant = "electric"
        /\ upc["s1"] = "append_row"
        /\ upc'["s1"] = "idle")
       => EarlierDataKept(sheet_before["s1"], sheet')]_vars

\* C25 witness: the call has returned after it rewrote the header row and
\* re-padded a row, and a charge value of that row stands under its header name
\* in another column than before
C25_Witness ==
    /\ variant = "electric"
    /\ upc["s1"] = "idle"
    /\ message["s1"] = "success"
    /\ existing_rows["s1"] # <<>>
    /\ cur_headers["s1"] # full_headers["s1"]
    /\ sheet[1] = full_headers["s1"]
    /\ Len(sheet) = Len(existing_rows["s1"]) + 2
    /\ Len(sheet[2]) = Len(full_headers["s1"])
    /\ \E j \in 1..Len(cur_headers["s1"]) :
          /\ ~InSeq(cur_headers["s1"][j], meta_cols)
          /\ IndexOf(sheet[1], cur_headers["s1"][j]) # j
          /\ existing_rows["s1"][1][j] # <<>>
          /\ sheet[2][IndexOf(sheet[1], cur_headers["s1"][j])] = existing_rows["s1"][1][j]

(***************************************************************************)
(* SpecSession: uploads of bills of two accounts, one at a time            *)
(***************************************************************************)
\* the documents of Docs and a bill of a second account
SessionDocs ==
    Docs \cup
    {[bytes |-> 4, account |-> <<"4","3","2","1"," ","8","7","6","5"," ","1","0","9">>,
      name_lines |-> <<sJaneUpper>>,
      month_year |-> <<"0","3","-","2","0","2","4">>, total_use |-> <<>>,
      charges |-> <<[Charge_Type |-> sCustomerCharge, Rate |-> <<>>, Amount |-> 2]>>]}

NextSession == \E s \in Sessions : (\E d \in SessionDocs : UploadAlone(s, d)) \/ RunStep(s)

SpecSession == InitApp /\ [][NextSession]_vars

\* C26: within a session of electric_bill_processor.py the customer_ids mapping
\* is stable and injective: an entry, once made, is never changed or removed, an
\* upload whose account number is in the mapping gets the User_ID stored for
\* it, and two account numbers never have the same User_ID
C26_CustomerIdsStable ==
    /\ [](\A s \in Sessions : \A a, b \in DictKeys(customer_ids[s]) :
             DictGet(customer_ids[s], a) = DictGet(customer_ids[s], b) => a = b)
    /\ [][\A s \in Sessions :
            /\ \A a \in DictKeys(customer_ids[s]) :
                  /\ DictHas(customer_ids'[s], a)
                  /\ DictGet(customer_ids'[s], a) = DictGet(customer_ids[s], a)
            /\ (/\ variant = "electric"
                /\ upc[s] = "process_pdf"
                /\ upc'[s] = "append_row_to_sheet"
                /\ identifier'[s] # <<>>) =>
                  /\ DictHas(customer_ids'[s], identifier'[s])
                  /\ DictGet(upload_row'[s], sUser_ID) =
                        DictGet(customer_ids'[s], identifier'[s])]_vars

\* C26 witness: a session that holds two account numbers has processed a
\* further bill of one of them and gave it the User_ID stored for the account
C26_Witness ==
    \E s \in Sessions :
        /\ variant = "electric"
        /\ uploads = 3
        /\ upc[s] = "append_row_to_sheet"
        /\ Cardinality(DictKeys(customer_ids[s])) = 2
        /\ uuid_count = 5
        /\ DictGet(upload_row[s], sUser_ID) = DictGet(customer_ids[s], identifier[s])

(***************************************************************************)
(* load_and_summarize of Bill_Analyzer.py                                  *)
(* A file is the list of its parts, each a page of a PDF or bytes that are *)
(* no PDF. The loader and the model are libraries: each call either        *)
(* answers or raises.                                                      *)
(***************************************************************************)
\* the most parts of an uploaded file
MaxFileParts == 3

FileParts == {"page", "junk"}

InitLoad ==
    /\ IdleNorm
    /\ IdleFold
    /\ IdleParse
    /\ IdleApp
    /\ IdleScan
    /\ IdleMeta
    /\ IdleSign
    /\ IdleWindow
    /\ variant = "electric"
    /\ pdf_file \in SeqsUpTo(FileParts, MaxFileParts)
    /\ use_template \in BOOLEAN
    /\ tmp_exists = FALSE
    /\ tmp_content = <<>>
    /\ docs = <<>>
    /\ response = <<>>
    /\ exc = ""
    /\ lpc = "call"

\* "with NamedTemporaryFile(delete=False, suffix=".pdf") as tmp:" with its body,
\* lines 29-31: the file is made, then written; a write that fails (OSError)
\* leaves the function from inside the with block, which closes the file and,
\* delete being False, keeps it
WriteTemporaryFile ==
    /\ lpc = "call"
    /\ tmp_exists' = TRUE
    /\ \/ /\ tmp_content' = pdf_file
          /\ exc' = ""
          /\ lpc' = "try"
       \/ /\ \E n \in 0..Len(pdf_file) : tmp_content' = SubSeq(pdf_file, 1, n)
          /\ exc' = "OSError"
          /\ lpc' = "raised"
    /\ UNCHANGED <<variant, notLoadVars, pdf_file, use_template, docs, response>>

\* loader = PyPDFLoader(file_path); docs = loader.load(), lines 34-35: one
\* document per page, or an exception of the PDF reader
LoadPdf ==
    /\ lpc = "try"
    /\ \/ /\ tmp_content # <<>>
          /\ \A k \in 1..Len(tmp_content) : tmp_content[k] = "page"
          /\ docs' = tmp_content
          /\ UNCHANGED exc
          /\ lpc' = "model"
       \/ /\ exc' = "PdfReadError"
          /\ lpc' = "finally"
          /\ UNCHANGED docs
    /\ UNCHANGED <<variant, notLoadVars, pdf_file, use_template, tmp_exists, tmp_content,
                   response>>

\* model = ChatOpenAI(...), lines 37-41: raises when no API key is set
MakeModel ==
    /\ lpc = "model"
    /\ \/ /\ lpc' = "invoke"
          /\ UNCHANGED exc
       \/ /\ exc' = "ValidationError"
          /\ lpc' = "finally"
    /\ UNCHANGED <<variant, notLoadVars, pdf_file, use_template, tmp_exists, tmp_content,
                   docs, response>>

\* "if use_template:" up to response = stuff_chain.invoke(docs), lines 43-84
InvokeTemplate ==
    /\ lpc = "invoke"
    /\ use_template
    /\ \/ /\ response' = <<[k |-> "output_text", v |-> <<"analysis", docs>>]>>
          /\ UNCHANGED exc
       \/ /\ exc' = "APIError"
          /\ UNCHANGED response
    /\ lpc' = "finally"
    /\ UNCHANGED <<variant, notLoadVars, pdf_file, use_template, tmp_exists, tmp_content,
                   docs>>

\* "else:" up to response = summarizer_chain.invoke(docs), lines 86-90
InvokeSummarize ==
    /\ lpc = "invoke"
    /\ ~use_template
    /\ \/ /\ response' = <<[k |-> "output_text", v |-> <<"summary", docs>>]>>
          /\ UNCHANGED exc
       \/ /\ exc' = "APIError"
          /\ UNCHANGED response
    /\ lpc' = "finally"
    /\ UNCHANGED <<variant, notLoadVars, pdf_file, use_template, tmp_exists, tmp_content,
                   docs>>

\* "finally: os.remove(file_path)", lines 92-94; the exception under way, if
\* any, then leaves the function
RemoveTemporaryFile ==
    /\ lpc = "finally"
    /\ tmp_exists' = FALSE
    /\ tmp_content' = <<>>
    /\ lpc' = IF exc = "" THEN "return" ELSE "raised"
    /\ UNCHANGED <<variant, notLoadVars, pdf_file, use_template, docs, response, exc>>

\* return response['output_text'], line 95
ReturnSummary ==
    /\ lpc = "return"
    /\ lpc' = "returned"
    /\ UNCHANGED <<variant, notLoadVars, pdf_file, use_template, tmp_exists, tmp_content,
                   docs, response, exc>>

NextLoad ==
    \/ WriteTemporaryFile
    \/ LoadPdf
    \/ MakeModel
    \/ InvokeTemplate
    \/ InvokeSummarize
    \/ RemoveTemporaryFile
    \/ ReturnSummary

SpecLoad == InitLoad /\ [][NextLoad]_vars

\* C27: load_and_summarize removes the temporary file it made on every path:
\* once the call has ended, with a summary returned or with an exception, the
\* file is no longer on the disk
C27_TemporaryFileRemoved ==
    lpc \in {"returned", "raised"} => ~tmp_exists

\* the part of C27 that Bill_Analyzer.py keeps: the file is gone when the call
\* returns a summary or raises from the try block (the loader, the model)
C27_RemovedAfterTry ==
    (lpc \in {"returned", "raised"} /\ exc # "OSError") => ~tmp_exists

(***************************************************************************)
(* image_extractor_mode, image_extractor_median, image_extractor_mean of   *)
(* signlanguagecode.py                                                     *)
(* An image has 28 rows and 200 columns. A pixel is 200 (the grey ground)  *)
(* or 0; a column is given by the number of its pixels that are 200.       *)
(***************************************************************************)
\* data.shape[2], and the 200 of "(200 - i) > 28"
ImageWidth == 200
\* the 28 of eg[:, i:i+28] and of reshape(1, 28, 28, 1)
WindowWidth == 28
\* the rows of an image
ImageHeight == 28

\* columns of ground, columns with 18 ground pixels of 28, columns without ground
ColumnKinds == {28, 18, 0}

\* the columns, counted from 0, that are not ground in some image
MarkedColumns == {0, 100, 171, 172, 173}

\* statistics.mode(col) of a column with k pixels of 200 (k is never 14)
ColumnMode(k) == IF 2 * k > ImageHeight THEN 200 ELSE 0

\* statistics.median(col): the mean of the two middle pixels of the sorted column
ColumnMedian(k) ==
    LET above == IF ImageHeight - k < ImageHeight \div 2 THEN 200 ELSE 0
        below == IF ImageHeight - k < ImageHeight \div 2 + 1 THEN 200 ELSE 0
    IN  (above + below) \div 2

\* np.mean(col) > 150
ColumnMeanAbove150(k) == 200 * k > 150 * ImageHeight

\* the number of columns of eg[:, i:i+28]
SliceWidth(i) ==
    (IF i + WindowWidth < ImageWidth THEN i + WindowWidth ELSE ImageWidth) - i

\* np.argmax(model1.predict(ims.reshape(1, 28, 28, 1)), axis=1) for the window
\* that starts at column i
Label(i) == <<"label", i>>

InitWindow ==
    /\ IdleNorm
    /\ IdleFold
    /\ IdleParse
    /\ IdleApp
    /\ IdleScan
    /\ IdleMeta
    /\ IdleSign
    /\ IdleLoad
    /\ variant = "electric"
    /\ \E marks \in [MarkedColumns -> ColumnKinds] :
          eg = [c \in 1..ImageWidth |->
                   IF c - 1 \in MarkedColumns THEN marks[c - 1] ELSE ImageHeight]
    /\ method \in {"mode", "median", "mean"}
    /\ col_i = 0
    /\ output_list = <<>>
    /\ windows = <<>>
    /\ xpc = "scan"

\* ims = eg[:, i:i+28]; predictions = model1.predict(ims.reshape(1, 28, 28, 1));
\* output_list.append(int(label)); i = i + 28.  reshape raises ValueError when
\* ims does not hold 28 * 28 pixels.
TakeWindow ==
    /\ windows' = Append(windows, [from |-> col_i, width |-> SliceWidth(col_i)])
    /\ IF ImageHeight * SliceWidth(col_i) = WindowWidth * WindowWidth
       THEN /\ output_list' = Append(output_list, Label(col_i))
            /\ col_i' = col_i + WindowWidth
            /\ UNCHANGED xpc
       ELSE /\ xpc' = "ValueError"
            /\ UNCHANGED <<output_list, col_i>>

\* i += 1
SkipColumn ==
    /\ col_i' = col_i + 1
    /\ UNCHANGED <<output_list, windows, xpc>>

\* one pass of the while loop of image_extractor_mode, lines 375-389
ScanColumnMode ==
    /\ xpc = "scan"
    /\ method = "mode"
    /\ col_i < ImageWidth
    /\ IF ColumnMode(eg[col_i + 1]) = 200 THEN SkipColumn ELSE TakeWindow
    /\ UNCHANGED <<variant, notWindowVars, eg, method>>

\* one pass of the while loop of image_extractor_median, lines 403-420
ScanColumnMedian ==
    /\ xpc = "scan"
    /\ method = "median"
    /\ col_i < ImageWidth
    /\ IF ColumnMedian(eg[col_i + 1]) = 200 THEN SkipColumn
       ELSE IF (200 - col_i) > 28 THEN TakeWindow
       ELSE SkipColumn
    /\ UNCHANGED <<variant, notWindowVars, eg, method>>

\* one pass of the while loop of image_extractor_mean, lines 434-451
ScanColumnMean ==
    /\ xpc = "scan"
    /\ method = "mean"
    /\ col_i < ImageWidth
    /\ IF ColumnMeanAbove150(eg[col_i + 1]) THEN SkipColumn
       ELSE IF (200 - col_i) > 28 THEN TakeWindow
       ELSE SkipColumn
    /\ UNCHANGED <<variant, notWindowVars, eg, method>>

\* the while loop is over: return output_list
ReturnOutputList ==
    /\ xpc = "scan"
    /\ col_i >= ImageWidth
    /\ xpc' = "returned"
    /\ UNCHANGED <<variant, notWindowVars, eg, method, col_i, output_list, windows>>

NextWindow == ScanColumnMode \/ ScanColumnMedian \/ ScanColumnMean \/ ReturnOutputList

SpecWindow == InitWindow /\ [][NextWindow]_vars

\* C28: in the three image extractors, for every 28x200 image, the column scan
\* ends by returning its list, and every window it takes is 28 columns wide and
\* inside the image: a window starts only at a column i with i + 28 <= 200
C28_WindowsInsideImage ==
    /\ xpc # "ValueError"
    /\ col_i < ImageWidth + WindowWidth
    /\ \A k \in 1..Len(windows) :
          /\ windows[k].width = WindowWidth
          /\ windows[k].from + WindowWidth <= ImageWidth

\* the part of C28 that signlanguagecode.py keeps: image_extractor_median and
\* image_extractor_mean take no window that leaves the image
C28_MedianAndMean == method # "mode" => C28_WindowsInsideImage

=============================================================================
